---- MODULE Spec2Model ----
(***************************************************************************)
(* Model of the transaction analytics engine of DPLabsDemo.                *)
(*                                                                         *)
(* Part I  (Spec)       : PnlService.GetTransactions and what it calls:    *)
(*                        getPaginatedSignatures, getBatchTransactions,    *)
(*                        getCachedTransactions, cacheTransactions,        *)
(*                        concurrentGetTransactions (its worker goroutines *)
(*                        and its collecting loop), sortTransactionsByTime.*)
(* Part II (SpecOrders) : PnlService.fetchJupiterOrders and what it calls. *)
(* Part III (SpecAccountant, SpecPnL) : PnlService.calculatePnL and        *)
(*                        calculatePositionPnL on a list of orders, and    *)
(*                        PnlService.CalculatePnL from txList to results.  *)
(* Part IV (SpecParse)  : the tree builder, the swap locator and the       *)
(*                        balance extractor applied to one transaction.    *)
(* Part V  (SpecHandler): PnLHandler.GetPnL serving one request.           *)
(* Part VI (SpecCache)  : getBatchTransactions run by concurrent calls on  *)
(*                        one PnlService (the cache and its lock).         *)
(* Part VII (SpecKeys)  : GetFullAccountKeys applied to one transaction.   *)
(***************************************************************************)
EXTENDS Integers, Sequences, FiniteSets, TLC

(***************************************************************************)
(* Bounds of the model.                                                    *)
(***************************************************************************)
\* Number of transactions the wallet's on-chain history can grow to.
MaxSigs == 3
\* Largest value of the limit argument of GetTransactions.
MaxLimit == 3

(***************************************************************************)
(* Program constants.  NewPnlService sets batchSize 50 and concurrency 100;*)
(* both are scaled down here so that a history of MaxSigs signatures needs *)
(* more than one page and can exceed the worker budget.                    *)
(***************************************************************************)
batchSize == 2
concurrency == 2
\* time.Time{} : the zero time, earlier than every Unix time the RPC reports
\* (the block times of RawTxs are all > ZeroTime).
ZeroTime == 0

\* rpc *UnixTimeSeconds values: <<>> is the nil pointer, <<t>> points to t.
\* On-chain data of one transaction, as GetTransaction reports it: one without
\* a block time, two that share a block time in different slots, a later one.
RawTxs == {[Slot |-> 1, BlockTime |-> <<>>], [Slot |-> 1, BlockTime |-> <<1>>],
           [Slot |-> 2, BlockTime |-> <<1>>], [Slot |-> 1, BlockTime |-> <<2>>]}

NoErr == <<>>
NoSig == 0
NoTx == [Signature |-> NoSig, Slot |-> 0, BlockTime |-> ZeroTime]

Min(a, b) == IF a < b THEN a ELSE b
Range(s) == {s[i] : i \in 1..Len(s)}

VARIABLES
    \* ---- environment: the chain behind the RPC endpoint
    chain,          \* chain[s] = raw data of the transaction with signature s
    \* ---- PnlService
    cache,          \* s.cache : signature -> Transaction
    \* ---- one GetTransactions call
    pc,             \* position of the calling goroutine
    limit,          \* argument limit
    allSignatures,  \* getPaginatedSignatures: allSignatures
    before,         \* getPaginatedSignatures: before
    pageSize,       \* getPaginatedSignatures: pageSize
    pages,          \* log of the page requests and their answers
    signatures,     \* argument of getBatchTransactions
    cached,         \* getBatchTransactions: cached
    remaining,      \* getBatchTransactions: remaining (the batch to fetch)
    semCap,         \* capacity of the semaphore channel
    workers,        \* workers[i] : position of the goroutine of remaining[i]
    resultChan,     \* the buffered result channel (FIFO)
    results,        \* concurrentGetTransactions: results
    firstErr,       \* concurrentGetTransactions: firstErr
    batchOut,       \* what getBatchTransactions returned
    ret,            \* what GetTransactions returned
    fetched,        \* fetched[s] = GetTransaction requests issued for s by this call
    failed,         \* indices of the batch whose request failed, in order of failure
    cache0          \* the signatures the cache held when the batch was partitioned

fvars == <<chain, cache, pc, limit, allSignatures, before, pageSize, pages,
           signatures, cached, remaining, semCap, workers, resultChan,
           results, firstErr, batchOut, ret, fetched, failed, cache0>>

VARIABLES
    \* ---- one fetchJupiterOrders call
    txList,         \* argument txList
    orders,         \* fetchJupiterOrders: orders
    next,           \* position of the loop over txList (1-based)
    out             \* how the call ended: "running", "ok", "err" or "panic"

ovars == <<txList, orders, next, out>>

VARIABLES
    \* ---- one calculatePnL call (and the sort of CalculatePnL before it)
    stage,          \* "idle", "account", "done", "err" or "panic"
    sorted,         \* the orders handed to calculatePnL
    cursor,         \* position of the loop over the orders (1-based)
    positions,      \* calculatePnL: positions
    currentPosition,\* calculatePnL: currentPosition, <<>> for nil
    quotes,         \* the historical prices the oracle answered, one per order
    currentPrice,   \* calculatePositionPnL: currentPrice, <<>> before it is asked
    pnlResults      \* what calculatePositionPnL returned

avars == <<stage, sorted, cursor, positions, currentPosition, quotes,
           currentPrice, pnlResults>>

VARIABLES
    \* ---- one transaction taken through tree builder, locator and extractor
    parsedTx,       \* the rpc.GetTransactionResult
    pstage,         \* "start", "tree", "located" or "extracted"
    treeOut,        \* what ParseInstructionTreeByStackHeight returned
    located,        \* the route and event nodes and the derived mints
    balances,       \* what GetBalanceChanges returned
    fullAccountKeys \* what GetFullAccountKeys returned

pvars == <<parsedTx, pstage, treeOut, located, balances, fullAccountKeys>>

VARIABLES
    \* ---- one GET /pnl request in PnLHandler.GetPnL
    hstage,         \* position of the handler
    query,          \* the query parameters of the request
    hlimit,         \* GetPnL: limit, <<>> before strconv.Atoi gave one
    fetchOut,       \* how GetTransactions ended, "none" when never called
    computeOut,     \* how CalculatePnL ended, "none" when never called
    bodies          \* the response bodies written with c.JSON, in order

hvars == <<hstage, query, hlimit, fetchOut, computeOut, bodies>>

VARIABLES
    \* ---- concurrent getBatchTransactions calls on one PnlService
    callers,        \* callers[c] : the locals of the goroutine of call c
    cacheMap,       \* s.cache : signature -> *Transaction
    writes          \* the map writes of cacheTransactions, in order

cvars == <<callers, cacheMap, writes>>

vars == <<fvars, ovars, avars, pvars, hvars, cvars>>

(***************************************************************************)
(* Pure functions of the fetcher.                                          *)
(***************************************************************************)

\* lines 286-299: blockTime is time.Unix(*rawTx.BlockTime) or time.Time{}.
NewTransaction(sig, rawTx) ==
    [Signature |-> sig,
     Slot      |-> rawTx.Slot,
     BlockTime |-> IF rawTx.BlockTime # <<>> THEN rawTx.BlockTime[1] ELSE ZeroTime]

\* Mutant of SwapNeeded: the slot tiebreak is forgotten.
SwapNeeded_NoSlot(txs, i, j) ==
    txs[j].BlockTime < txs[i].BlockTime

\* lines 74-79: txs[j] belongs before txs[i].
SwapNeeded(txs, i, j) ==
    \/ txs[j].BlockTime < txs[i].BlockTime
    \/ (txs[j].BlockTime = txs[i].BlockTime /\ txs[j].Slot < txs[i].Slot)

Swap(txs, i, j) == [txs EXCEPT ![i] = txs[j], ![j] = txs[i]]

RECURSIVE sortInner(_, _, _)
sortInner(txs, i, j) ==
    IF j > Len(txs) THEN txs
    ELSE sortInner(IF SwapNeeded(txs, i, j) THEN Swap(txs, i, j) ELSE txs, i, j + 1)

RECURSIVE sortOuter(_, _)
sortOuter(txs, i) ==
    IF i > Len(txs) THEN txs ELSE sortOuter(sortInner(txs, i, i + 1), i + 1)

\* lines 71-82
sortTransactionsByTime(txs) == sortOuter(txs, 1)

\* getCachedTransactions: the hits, in request order.
CachedOf(c, sigs) ==
    LET hits == SelectSeq(sigs, LAMBDA s : s \in DOMAIN c)
    IN  [i \in 1..Len(hits) |-> c[hits[i]]]

\* Mutant of RemainingOf: every requested signature is fetched again.
RemainingOf_All(c, sigs) == sigs

\* getCachedTransactions: the misses, in request order.
RemainingOf(c, sigs) == SelectSeq(sigs, LAMBDA s : s \notin DOMAIN c)

\* cacheTransactions: s.cache[tx.Signature] = tx for every non-nil tx.
cacheTransactions(c, txs) ==
    LET new == {txs[i].Signature : i \in {k \in 1..Len(txs) : txs[k] # NoTx}}
        last(s) == CHOOSE i \in 1..Len(txs) :
                      /\ txs[i].Signature = s
                      /\ \A k \in (i + 1)..Len(txs) : txs[k].Signature # s
    IN  [s \in DOMAIN c \cup new |-> IF s \in new THEN txs[last(s)] ELSE c[s]]

\* line 255: semaphore := make(chan struct{}, len(signatures))
SemaphoreCap(sigs) == Len(sigs)

\* Mutant of NextPageSize: the page size is never shrunk.
NextPageSize_NoShrink(size, lim, collected) == size

\* lines 126-129: remaining := limit - len(all); if pageSize > remaining { pageSize = remaining }
NextPageSize(size, lim, collected) ==
    IF size > lim - collected THEN lim - collected ELSE size

\* The wallet's history as the RPC pages it: newest first.
History == [i \in 1..Len(chain) |-> Len(chain) + 1 - i]

\* Signatures strictly older than the cursor (all of them without a cursor).
OlderThan(b) == IF b = NoSig THEN History ELSE SubSeq(History, Len(chain) + 2 - b, Len(chain))

\* Mutant of ResultSlot: results are stored in arrival order.
ResultSlot_Arrival(res, arrival) == arrival

\* line 327: results[res.index] = res.tx
ResultSlot(res, arrival) == res.index

(***************************************************************************)
(* Part II: the order assembler.                                           *)
(*                                                                         *)
(* A raw transaction (rpc.GetTransactionResult) is                         *)
(*   [parseOK, version, AccountKeys, Instructions, Meta]                   *)
(* parseOK  : tx.Transaction.GetTransaction() decodes the envelope         *)
(* Meta     : <<>> for a nil pointer, <<m>> for a pointer to m, with       *)
(*   m = [Writable, ReadOnly, InnerInstructions, PreBalances, PostBalances,*)
(*        PreTokenBalances, PostTokenBalances]                             *)
(* An instruction is [ProgramIDIndex, Data]; account indices are 0-based   *)
(* as in the source.  Data is [long, tag1, tag2, event]:                   *)
(*   long  : the data holds at least 16 bytes                              *)
(*   tag1  : hex of bytes 0..8,  tag2 : hex of bytes 8..16                 *)
(*   event : <<>> when borsh cannot decode bytes 16.. as a                 *)
(*           JupiterSwapEventData, else <<[InputMint, OutputMint]>>        *)
(***************************************************************************)
JupiterPID == "JUP"
WrappedSOL == "So11111111111111111111111111111111111111112"
RouteTag == "e517cb977ae3ad2a"
EventTag1 == "e445a52e51cb9a1d"
EventTag2 == "40c6cde8260871e2"

Put(f, k, v) == [x \in DOMAIN f \cup {k} |-> IF x = k THEN v ELSE f[x]]
EmptyMap == [x \in {} |-> 0]

\* lines 596-616.  The loaded addresses are appended for a legacy message
\* only; tx.Meta is dereferenced there without a nil check.
GetFullAccountKeys(raw) ==
    IF ~raw.parseOK THEN [kind |-> "err", keys |-> <<>>]
    ELSE IF raw.version = "legacy"
         THEN IF raw.Meta = <<>> THEN [kind |-> "panic", keys |-> <<>>]
              ELSE [kind |-> "ok",
                    keys |-> raw.AccountKeys \o raw.Meta[1].Writable \o raw.Meta[1].ReadOnly]
         ELSE [kind |-> "ok", keys |-> raw.AccountKeys]

\* lines 391-400: the top-level instructions, stack height 0.
TopLevelInstructions(raw) ==
    [i \in 1..Len(raw.Instructions) |->
        [Index |-> i - 1, ParentTopIndex |-> -1, StackHeight |-> 0,
         ProgramIDIndex |-> raw.Instructions[i].ProgramIDIndex,
         Data |-> raw.Instructions[i].Data]]

\* Mutant of AddInnerGroups: every inner instruction is tied to the first
\* top-level instruction, whatever its group names.
RECURSIVE AddInnerGroups_FirstTop(_, _, _)
AddInnerGroups_FirstTop(all, groups, nTop) ==
    IF groups = <<>> THEN [err |-> FALSE, all |-> all]
    ELSE LET g == Head(groups)
         IN  IF g.Index < 0 \/ g.Index >= nTop THEN [err |-> TRUE, all |-> <<>>]
             ELSE LET add == [k \in 1..Len(g.Instructions) |->
                                 [Index |-> Len(all) + k - 1,
                                  ParentTopIndex |-> 0,
                                  StackHeight |-> all[1].StackHeight + 1,
                                  ProgramIDIndex |-> g.Instructions[k].ProgramIDIndex,
                                  Data |-> g.Instructions[k].Data]]
                  IN  AddInnerGroups_FirstTop(all \o add, Tail(groups), nTop)

\* lines 404-426: the inner groups, each member one level below its
\* top-level instruction, numbered on from the last global index.
RECURSIVE AddInnerGroups(_, _, _)
AddInnerGroups(all, groups, nTop) ==
    IF groups = <<>> THEN [err |-> FALSE, all |-> all]
    ELSE LET g == Head(groups)
         IN  IF g.Index < 0 \/ g.Index >= nTop THEN [err |-> TRUE, all |-> <<>>]
             ELSE LET h == all[g.Index + 1].StackHeight + 1
                      add == [k \in 1..Len(g.Instructions) |->
                                 [Index |-> Len(all) + k - 1,
                                  ParentTopIndex |-> g.Index,
                                  StackHeight |-> h,
                                  ProgramIDIndex |-> g.Instructions[k].ProgramIDIndex,
                                  Data |-> g.Instructions[k].Data]]
                  IN  AddInnerGroups(all \o add, Tail(groups), nTop)

\* lines 381-430
getAllInstructionsWithStackHeight(raw) ==
    IF ~raw.parseOK THEN [err |-> TRUE, all |-> <<>>]
    ELSE IF raw.Meta = <<>> THEN [err |-> FALSE, all |-> TopLevelInstructions(raw)]
    ELSE AddInnerGroups(TopLevelInstructions(raw), raw.Meta[1].InnerInstructions,
                        Len(raw.Instructions))

\* lines 511-517: upwards from the start node, the start node included.
\* Nodes are named by their place in the list (global index + 1); 0 is nil.
RECURSIVE WalkUp(_, _, _)
WalkUp(nodes, cur, h) ==
    IF cur = 0 THEN 0
    ELSE IF nodes[cur].StackHeight = h THEN cur
    ELSE WalkUp(nodes, nodes[cur].Parent, h)

\* lines 523-534
RECURSIVE findChildByStackHeight(_, _, _)
RECURSIVE FirstChildFound(_, _, _)
findChildByStackHeight(nodes, n, h) ==
    IF nodes[n].StackHeight = h THEN n ELSE FirstChildFound(nodes, nodes[n].Children, h)

FirstChildFound(nodes, kids, h) ==
    IF kids = <<>> THEN 0
    ELSE LET f == findChildByStackHeight(nodes, Head(kids), h)
         IN  IF f # 0 THEN f ELSE FirstChildFound(nodes, Tail(kids), h)

\* lines 509-520
findParentByStackHeight(nodes, start, h) ==
    LET up == WalkUp(nodes, start, h)
    IN  IF up # 0 THEN up ELSE findChildByStackHeight(nodes, start, h)

\* lines 456-490: the nodes are created in index order and linked.
RECURSIVE LinkNodes(_, _, _, _)
LinkNodes(all, k, nodes, roots) ==
    IF k > Len(all) THEN [err |-> FALSE, nodes |-> nodes, roots |-> roots]
    ELSE LET in == all[k]
             node == [Index |-> in.Index, StackHeight |-> in.StackHeight,
                      ProgramIDIndex |-> in.ProgramIDIndex, Data |-> in.Data,
                      Parent |-> 0, Children |-> <<>>]
             withNode == Append(nodes, node)
         IN  IF in.ParentTopIndex = -1
             THEN LinkNodes(all, k + 1, withNode, Append(roots, k))
             ELSE IF in.ParentTopIndex + 1 > Len(withNode)
             THEN [err |-> TRUE, nodes |-> <<>>, roots |-> <<>>]
             ELSE LET par == findParentByStackHeight(withNode, in.ParentTopIndex + 1,
                                                     in.StackHeight - 1)
                  IN  IF par = 0 THEN [err |-> TRUE, nodes |-> <<>>, roots |-> <<>>]
                      ELSE LinkNodes(all, k + 1,
                                     [withNode EXCEPT ![k].Parent = par,
                                                      ![par].Children = Append(@, k)],
                                     roots)

NoData == [long |-> FALSE, tag1 |-> "", tag2 |-> "", event |-> <<>>]

\* lines 433-506.  The list comes out of getAllInstructionsWithStackHeight in
\* index order already, so the sort of lines 448-450 leaves it as it is.
\* The result names its root node; a virtual root is appended after the others.
ParseInstructionTreeByStackHeight(raw) ==
    LET got == getAllInstructionsWithStackHeight(raw)
    IN  IF got.err \/ got.all = <<>> THEN [err |-> TRUE, nodes |-> <<>>, root |-> 0]
        ELSE LET t == LinkNodes(got.all, 1, <<>>, <<>>)
             IN  IF t.err THEN [err |-> TRUE, nodes |-> <<>>, root |-> 0]
                 ELSE IF Len(t.roots) > 1
                 THEN LET v == Len(t.nodes) + 1
                          virtualRoot == [Index |-> -1, StackHeight |-> 0,
                                          ProgramIDIndex |-> 0, Data |-> NoData,
                                          Parent |-> 0, Children |-> t.roots]
                      IN  [err |-> FALSE,
                           nodes |-> Append([n \in 1..Len(t.nodes) |->
                                               IF n \in Range(t.roots)
                                               THEN [t.nodes[n] EXCEPT !.Parent = v]
                                               ELSE t.nodes[n]],
                                            virtualRoot),
                           root |-> v]
                 ELSE [err |-> FALSE, nodes |-> t.nodes, root |-> t.roots[1]]

\* lines 572-590: depth-first, a node before its children.  `todo` is the
\* list of the nodes still to visit.  Indexing fullAccountKeys out of range,
\* or slicing 16 bytes off shorter data, panics.
RECURSIVE traverse(_, _, _, _, _)
traverse(keys, nodes, todo, target, acc) ==
    IF todo = <<>> \/ acc.panic THEN acc
    ELSE LET n == nodes[Head(todo)]
             rest == n.Children \o Tail(todo)
         IN  IF n.ProgramIDIndex + 1 > Len(keys)
             THEN [acc EXCEPT !.panic = TRUE]
             ELSE IF keys[n.ProgramIDIndex + 1] # target
             THEN traverse(keys, nodes, rest, target, acc)
             ELSE IF ~n.Data.long
             THEN [acc EXCEPT !.panic = TRUE]
             ELSE traverse(keys, nodes, rest, target,
                    [panic |-> FALSE,
                     route |-> IF n.Data.tag1 = RouteTag
                               THEN Append(acc.route, Head(todo)) ELSE acc.route,
                     event |-> IF n.Data.tag1 = EventTag1 /\ n.Data.tag2 = EventTag2
                               THEN Append(acc.event, Head(todo)) ELSE acc.event])

\* lines 562-594
FindNodesByProgramID(keys, tree, target) ==
    traverse(keys, tree.nodes, <<tree.root>>, target,
             [panic |-> FALSE, route |-> <<>>, event |-> <<>>])

Abs(x) == IF x < 0 THEN 0 - x ELSE x

\* lines 644-666 and 683-709: one balance table from the token-balance rows,
\* keyed by (owner, mint); a later row of the same pair replaces an earlier
\* one; accountKeys[accountIdx] panics beyond the account list.
RECURSIVE TokenRows(_, _, _)
TokenRows(rows, keys, acc) ==
    IF rows = <<>> \/ acc.panic THEN acc
    ELSE LET r == Head(rows)
         IN  IF r.AccountIndex + 1 > Len(keys) THEN [acc EXCEPT !.panic = TRUE]
             ELSE TokenRows(Tail(rows), keys,
                    [acc EXCEPT !.map = Put(@, <<r.Owner, r.Mint>>,
                                            [Amount |-> r.Amount, Decimals |-> r.Decimals])])

\* lines 669-680 and 712-727: the native balances, asset "SOL", 9 decimals,
\* owner accountKeys[i].
RECURSIVE NativeRows(_, _, _, _)
NativeRows(bals, i, keys, acc) ==
    IF i > Len(bals) \/ acc.panic THEN acc
    ELSE IF i > Len(keys) THEN [acc EXCEPT !.panic = TRUE]
    ELSE NativeRows(bals, i + 1, keys,
           [acc EXCEPT !.map = Put(@, <<keys[i], "SOL">>,
                                   [Amount |-> bals[i], Decimals |-> 9])])

\* Mutant of WithClosed: a pair absent after the trade is left out.
WithClosed_Omit(pre, post) == post

\* lines 730-744: a pair held before and absent after has post balance 0.
WithClosed(pre, post) ==
    [x \in DOMAIN post \cup DOMAIN pre |->
        IF x \in DOMAIN post THEN post[x]
        ELSE [Amount |-> 0, Decimals |-> pre[x].Decimals]]

\* lines 747-784: the change of every pair of the post table.
ChangesOf(pre, post) ==
    [x \in DOMAIN post |->
        LET preAmount == IF x \in DOMAIN pre THEN pre[x].Amount ELSE 0
            decimals  == IF x \in DOMAIN pre THEN pre[x].Decimals ELSE post[x].Decimals
        IN  [Amount |-> Abs(post[x].Amount - preAmount), Decimals |-> decimals]]

\* lines 626-787; the changes are keyed by (owner, asset).
GetBalanceChanges(raw, keys) ==
    IF raw.Meta = <<>> THEN [kind |-> "err", changes |-> EmptyMap]
    ELSE LET meta == raw.Meta[1]
             start == [panic |-> FALSE, map |-> EmptyMap]
             pre  == NativeRows(meta.PreBalances, 1, keys,
                                TokenRows(meta.PreTokenBalances, keys, start))
             post == NativeRows(meta.PostBalances, 1, keys,
                                TokenRows(meta.PostTokenBalances, keys, start))
         IN  IF pre.panic \/ post.panic THEN [kind |-> "panic", changes |-> EmptyMap]
             ELSE [kind |-> "ok",
                   changes |-> ChangesOf(pre.map, WithClosed(pre.map, post.map))]

\* tokenChangeMap[owner][asset]: <<>> is the nil *TokenChange.
Lookup(changes, owner, asset) ==
    IF <<owner, asset>> \in DOMAIN changes THEN <<changes[<<owner, asset>>]>> ELSE <<>>

\* lines 957-962
Normalize(m) == IF m = WrappedSOL THEN "SOL" ELSE m

\* Mutant of DeriveMints: both mints are read off the first event.
DeriveMints_FirstEvent(nodes, event) ==
    IF event = <<>> THEN [err |-> FALSE, sell |-> "", buy |-> ""]
    ELSE LET first == nodes[event[1]].Data.event
         IN  IF first = <<>> THEN [err |-> TRUE, sell |-> "", buy |-> ""]
             ELSE [err |-> FALSE, sell |-> first[1].InputMint, buy |-> first[1].OutputMint]

\* lines 939-955: the first event gives the sell mint, the last the buy mint;
\* only these two payloads are decoded.
DeriveMints(nodes, event) ==
    IF event = <<>> THEN [err |-> FALSE, sell |-> "", buy |-> ""]
    ELSE LET first == nodes[event[1]].Data.event
             last  == nodes[event[Len(event)]].Data.event
         IN  IF first = <<>> \/ last = <<>> THEN [err |-> TRUE, sell |-> "", buy |-> ""]
             ELSE [err |-> FALSE, sell |-> first[1].InputMint, buy |-> last[1].OutputMint]

OrderToken(m, change) == [Mint |-> m, Amount |-> change.Amount, Decimals |-> change.Decimals]
NoOrder == [Signature |-> NoSig, Slot |-> 0, BlockTime |-> ZeroTime,
            BuyToken |-> [Mint |-> "", Amount |-> 0, Decimals |-> 0],
            SellToken |-> [Mint |-> "", Amount |-> 0, Decimals |-> 0]]
Skip == [kind |-> "skip", order |-> NoOrder]
Abort == [kind |-> "err", order |-> NoOrder]
Crash == [kind |-> "panic", order |-> NoOrder]

\* lines 964-992: the target mint is sold.  A nil change is dereferenced.
SellBranch(tx, changes, user, mint, sell, buy) ==
    LET sellTokenChange == Lookup(changes, user, mint)
        buyTokenChange  == Lookup(changes, user, buy)
    IN  IF sellTokenChange = <<>> \/ buyTokenChange = <<>> THEN Crash
        ELSE [kind |-> "order",
              order |-> [Signature |-> tx.Signature, Slot |-> tx.Slot,
                         BlockTime |-> tx.BlockTime,
                         SellToken |-> OrderToken(sell, sellTokenChange[1]),
                         BuyToken  |-> OrderToken(buy, buyTokenChange[1])]]

\* lines 993-1022: the target mint is bought.  Line 1004 looks the sell
\* side up under buyTokenMint.
BuyBranch(tx, changes, user, mint, sell, buy) ==
    LET buyTokenChange  == Lookup(changes, user, mint)
        sellTokenChange == Lookup(changes, user, buy)
    IN  IF buyTokenChange = <<>> \/ sellTokenChange = <<>> THEN Crash
        ELSE [kind |-> "order",
              order |-> [Signature |-> tx.Signature, Slot |-> tx.Slot,
                         BlockTime |-> tx.BlockTime,
                         SellToken |-> OrderToken(sell, sellTokenChange[1]),
                         BuyToken  |-> OrderToken(buy, buyTokenChange[1])]]

\* lines 906-1022: the body of the loop of fetchJupiterOrders for one
\* transaction: "skip" is continue (or no branch taken), "order" an appended
\* order, "err" is return nil, err, "panic" a runtime panic.
AssembleOrder(tx, user, mint) ==
    LET full == GetFullAccountKeys(tx.RawTx)
    IN  IF full.kind = "panic" THEN Crash
        ELSE IF full.kind = "err" THEN Skip
        ELSE LET insTree == ParseInstructionTreeByStackHeight(tx.RawTx)
             IN  IF insTree.err THEN Skip
                 ELSE LET found == FindNodesByProgramID(full.keys, insTree, JupiterPID)
                      IN  IF found.panic THEN Crash
                          ELSE IF Len(found.route) > 1 THEN Skip
                          ELSE IF Len(found.route) = 0 THEN Skip
                          ELSE LET bal == GetBalanceChanges(tx.RawTx, full.keys)
                               IN  IF bal.kind = "err" THEN Abort
                                   ELSE IF bal.kind = "panic" THEN Crash
                                   ELSE LET m == DeriveMints(insTree.nodes, found.event)
                                            sell == Normalize(m.sell)
                                            buy  == Normalize(m.buy)
                                        IN  IF m.err THEN Abort
                                            ELSE IF sell = mint
                                            THEN SellBranch(tx, bal.changes, user, mint, sell, buy)
                                            ELSE IF buy = mint
                                            THEN BuyBranch(tx, bal.changes, user, mint, sell, buy)
                                            ELSE Skip

(***************************************************************************)
(* The transactions the assembler is given.                                *)
(***************************************************************************)
\* Longest txList.
MaxTx == 2

User == "W"
TargetMint == "T"
\* account list: 0 the wallet, 1 another owner, 2 the aggregator program,
\* 3 another program, 4 and 5 token accounts
Keys == <<"W", "X", "JUP", "SYS", "A1", "A2">>

OtherInstr == [ProgramIDIndex |-> 3,
               Data |-> [long |-> TRUE, tag1 |-> "other", tag2 |-> "other", event |-> <<>>]]
RouteInstr == [ProgramIDIndex |-> 2,
               Data |-> [long |-> TRUE, tag1 |-> RouteTag, tag2 |-> "other", event |-> <<>>]]
EventInstr(e) == [ProgramIDIndex |-> 2,
                  Data |-> [long |-> TRUE, tag1 |-> EventTag1, tag2 |-> EventTag2, event |-> e]]
Ev(in, o) == <<[InputMint |-> in, OutputMint |-> o]>>
Undecodable == <<>>
Row(acct, owner, m, amount) ==
    [AccountIndex |-> acct, Owner |-> owner, Mint |-> m, Amount |-> amount, Decimals |-> 6]

\* the swap events of a route, in emission order
EventLists ==
    { <<>>,
      <<Ev("T", "U")>>, <<Ev("U", "T")>>, <<Ev(WrappedSOL, "T")>>, <<Ev("T", WrappedSOL)>>,
      <<Ev("U", WrappedSOL)>>, <<Ev("T", "U"), Ev("U", WrappedSOL)>>,
      <<Undecodable>>, <<Ev("U", WrappedSOL), Undecodable, Ev(WrappedSOL, "T")>> }

\* the token-balance rows before and after: both assets held by the wallet,
\* the target account closed, only the other asset, none, another owner's
BalanceRows ==
    { [pre |-> <<Row(4, "W", "T", 10), Row(5, "W", "U", 1)>>,
       post |-> <<Row(4, "W", "T", 4), Row(5, "W", "U", 4)>>],
      [pre |-> <<Row(4, "W", "T", 10)>>, post |-> <<>>],
      [pre |-> <<>>, post |-> <<Row(5, "W", "U", 3)>>],
      [pre |-> <<>>, post |-> <<>>],
      [pre |-> <<Row(4, "X", "T", 10)>>, post |-> <<Row(4, "X", "T", 4)>>] }

MkRaw(nRoute, events, rows, fault, version) ==
    [parseOK |-> fault # "parse",
     version |-> version,
     AccountKeys |-> Keys,
     Instructions |-> <<OtherInstr>> \o [i \in 1..nRoute |-> RouteInstr],
     Meta |-> IF fault = "nometa" THEN <<>>
              ELSE <<[Writable |-> <<>>, ReadOnly |-> <<>>,
                      InnerInstructions |->
                          IF nRoute = 0 THEN <<>>
                          ELSE <<[Index |-> IF fault = "inner" THEN 9 ELSE 1,
                                  Instructions |-> <<OtherInstr>> \o
                                      [k \in 1..Len(events) |-> EventInstr(events[k])]]>>,
                      PreBalances |-> <<9, 5, 0, 0, 0, 0>>,
                      PostBalances |-> <<7, 5, 0, 0, 0, 0>>,
                      PreTokenBalances |-> rows.pre,
                      PostTokenBalances |-> rows.post]>>]

DefaultRows == CHOOSE r \in BalanceRows : Len(r.pre) = 2

RawUniverse ==
    {MkRaw(1, e, r, "none", "legacy") : e \in EventLists, r \in BalanceRows}
    \cup {MkRaw(n, <<Ev("T", "U")>>, DefaultRows, "none", "legacy") : n \in {0, 2}}
    \cup {MkRaw(1, <<Ev("T", "U")>>, DefaultRows, f, v) :
             f \in {"parse", "inner", "nometa"}, v \in {"legacy", "v0"}}

RECURSIVE ListsUpTo(_)
ListsUpTo(n) ==
    IF n = 0 THEN {<<>>}
    ELSE LET shorter == ListsUpTo(n - 1)
         IN  shorter \cup {Append(l, r) : l \in {x \in shorter : Len(x) = n - 1},
                                          r \in RawUniverse}

\* Transaction i of a list carries signature i, slot i and block time i.
MkTxList(raws) ==
    [i \in 1..Len(raws) |-> [Signature |-> i, Slot |-> i, BlockTime |-> i, RawTx |-> raws[i]]]

(***************************************************************************)
(* The state machine of one fetchJupiterOrders call.                       *)
(***************************************************************************)
FetcherIdle ==
    /\ chain = <<>>
    /\ cache = [s \in {} |-> NoTx]
    /\ pc = "idle"
    /\ limit = 0
    /\ allSignatures = <<>>
    /\ before = NoSig
    /\ pageSize = batchSize
    /\ pages = <<>>
    /\ signatures = <<>>
    /\ cached = <<>>
    /\ remaining = <<>>
    /\ semCap = 0
    /\ workers = <<>>
    /\ resultChan = <<>>
    /\ results = <<>>
    /\ firstErr = NoErr
    /\ batchOut = [kind |-> "none", txs |-> <<>>, err |-> NoErr]
    /\ ret = [kind |-> "none", txs |-> <<>>, err |-> NoErr]
    /\ fetched = [s \in 1..MaxSigs |-> 0]
    /\ failed = <<>>
    /\ cache0 = {}

\* No calculatePnL call has started.
AccountantIdle ==
    /\ stage = "idle"
    /\ sorted = <<>>
    /\ cursor = 1
    /\ positions = <<>>
    /\ currentPosition = <<>>
    /\ quotes = <<>>
    /\ currentPrice = <<>>
    /\ pnlResults = <<>>

\* No transaction is being parsed.
ParserIdle ==
    /\ parsedTx = <<>>
    /\ pstage = "idle"
    /\ treeOut = <<>>
    /\ located = <<>>
    /\ balances = <<>>
    /\ fullAccountKeys = <<>>

\* No request is being handled.
HandlerIdle ==
    /\ hstage = "idle"
    /\ query = <<>>
    /\ hlimit = <<>>
    /\ fetchOut = "none"
    /\ computeOut = "none"
    /\ bodies = <<>>

\* No concurrent call is running; NewPnlService made the cache empty.
CallersIdle ==
    /\ callers = <<>>
    /\ cacheMap = <<>>
    /\ writes = <<>>

InitOrders ==
    /\ FetcherIdle
    /\ HandlerIdle
    /\ CallersIdle
    /\ AccountantIdle
    /\ ParserIdle
    /\ txList \in {MkTxList(l) : l \in ListsUpTo(MaxTx)}
    /\ orders = <<>>
    /\ next = 1
    /\ out = "running"

\* one turn of the loop of lines 905-1023
FetchStep ==
    /\ out = "running"
    /\ next <= Len(txList)
    /\ LET r == AssembleOrder(txList[next], User, TargetMint)
       IN  /\ orders' = IF r.kind = "order" THEN Append(orders, r.order)
                        ELSE IF r.kind = "skip" THEN orders
                        ELSE <<>>
           /\ out' = IF r.kind \in {"order", "skip"} THEN "running" ELSE r.kind
           /\ next' = IF r.kind \in {"order", "skip"} THEN next + 1 ELSE next
    /\ UNCHANGED <<txList, fvars, avars, pvars, hvars, cvars>>

\* lines 901-903 and 1024: the list is through (or empty); the orders are returned.
FetchReturn ==
    /\ out = "running"
    /\ next > Len(txList)
    /\ out' = "ok"
    /\ UNCHANGED <<txList, orders, next, fvars, avars, pvars, hvars, cvars>>

NextOrders == FetchStep \/ FetchReturn

SpecOrders == InitOrders /\ [][NextOrders]_vars

(***************************************************************************)
(* Part III: the accountant.                                               *)
(*                                                                         *)
(* A float64 quantity is modelled by the exact rational [n, d] (d > 0, in  *)
(* lowest terms) of the real number the computation stands for.  A figure  *)
(* that went through truncateToDecimals or through fmt.Sprintf is a        *)
(* decimal [neg, int, frac]: sign, integer part and the digits after the   *)
(* point.                                                                  *)
(***************************************************************************)
RECURSIVE GCD(_, _)
GCD(a, b) == IF b = 0 THEN a ELSE GCD(b, a % b)

Rat(n, d) == LET g == GCD(Abs(n), d) IN [n |-> n \div g, d |-> d \div g]
Zero == [n |-> 0, d |-> 1]
\* The float64 NaN, what 0/0 gives; every sum, product and quotient with a
\* NaN operand is NaN and every comparison with it is false.
NaN == [n |-> 0, d |-> 0]
IsNaN(a) == a.d = 0
RAdd(a, b) ==
    IF IsNaN(a) \/ IsNaN(b) THEN NaN
    ELSE LET g == GCD(a.d, b.d)
         IN  Rat(a.n * (b.d \div g) + b.n * (a.d \div g), (a.d \div g) * b.d)
RNeg(a) == [n |-> 0 - a.n, d |-> a.d]
RSub(a, b) == RAdd(a, RNeg(b))
RMul(a, b) ==
    IF IsNaN(a) \/ IsNaN(b) THEN NaN
    ELSE LET g1 == GCD(Abs(a.n), b.d)
             g2 == GCD(Abs(b.n), a.d)
         IN  Rat((a.n \div g1) * (b.n \div g2), (a.d \div g2) * (b.d \div g1))
\* a / b; 0/0 is NaN (the program divides by zero only in line 1095, where
\* the dividend is 0 whenever the divisor is)
RDiv(a, b) ==
    IF IsNaN(a) \/ IsNaN(b) \/ b.n = 0 THEN NaN
    ELSE RMul(a, IF b.n > 0 THEN [n |-> b.d, d |-> b.n]
                 ELSE [n |-> 0 - b.d, d |-> 0 - b.n])
RLess(a, b) == ~IsNaN(a) /\ ~IsNaN(b) /\ a.n * b.d < b.n * a.d
RLeq(a, b) == ~IsNaN(a) /\ ~IsNaN(b) /\ a.n * b.d <= b.n * a.d

RECURSIVE Pow10(_)
Pow10(k) == IF k = 0 THEN 1 ELSE 10 * Pow10(k - 1)

\* The first k digits after the point of r/d, for 0 <= r < d.
RECURSIVE Digits(_, _, _)
Digits(r, d, k) ==
    IF k = 0 THEN <<>>
    ELSE <<(r * 10) \div d>> \o Digits((r * 10) % d, d, k - 1)

RECURSIVE StripZeros(_)
StripZeros(ds) ==
    IF ds # <<>> /\ ds[Len(ds)] = 0 THEN StripZeros(SubSeq(ds, 1, Len(ds) - 1)) ELSE ds

\* The float64 0.
ZeroFloat == [neg |-> FALSE, int |-> 0, frac |-> <<>>]
\* The float64 NaN as a printed or reported figure.
NaNFloat == [nan |-> TRUE]

\* lines 1197-1204: math.Trunc(value*shift)/shift, the value cut after
\* `decimals` digits towards zero; trailing zeros carry no information in a
\* float64.
truncateToDecimals(value, decimals) ==
    LET a == Abs(value.n)
        places == IF decimals <= 0 THEN 0 ELSE decimals
        int == a \div value.d
        frac == StripZeros(Digits(a % value.d, value.d, places))
    IN  IF IsNaN(value) THEN NaNFloat
        ELSE IF int = 0 /\ frac = <<>> THEN ZeroFloat
        ELSE [neg |-> value.n < 0, int |-> int, frac |-> frac]

\* line 1184: fmt.Sprintf("%.2f%%", x) prints x rounded to the nearest
\* hundredth and then "%".  The result is the set of the strings the call can
\* give: one, unless x lies exactly between two hundredths of the real
\* number, where the float64 that stands for it decides.
Sprintf2f(x) ==
    LET a == Abs(x.n)
        r1 == ((a % x.d) * 10) % x.d
        rem == (r1 * 10) % x.d
        lo == (a \div x.d) * 100 + (((a % x.d) * 10) \div x.d) * 10 + (r1 * 10) \div x.d
        Str(h) == [neg |-> x.n < 0, int |-> h \div 100,
                   frac |-> <<(h % 100) \div 10, h % 10>>]
    IN  IF IsNaN(x) THEN {NaNFloat}
        ELSE IF 2 * rem < x.d THEN {Str(lo)}
        ELSE IF 2 * rem > x.d THEN {Str(lo + 1)}
        ELSE {Str(lo), Str(lo + 1)}

\* Mutant of parseTokenAmount: the raw amount, the decimals forgotten.
parseTokenAmount_Raw(order, isBuy) ==
    LET tokenAmount == IF isBuy THEN order.BuyToken ELSE order.SellToken
    IN  Rat(tokenAmount.Amount, 1)

\* lines 1132-1147: the amount of the target side of the order,
\* Amount / 10^Decimals.  The Amount strings fetchJupiterOrders writes are
\* decimal integers, so strconv.ParseInt succeeds.
parseTokenAmount(order, isBuy) ==
    LET tokenAmount == IF isBuy THEN order.BuyToken ELSE order.SellToken
    IN  Rat(tokenAmount.Amount, Pow10(tokenAmount.Decimals))

\* lines 1076-1084
NewPosition ==
    [TotalAmount |-> Zero, TotalCostUSD |-> Zero, RealizedPnL |-> Zero,
     TotalInvestment |-> Zero, TotalQuantity |-> Zero, AverageCost |-> Zero,
     Transactions |-> <<>>, IsClosed |-> FALSE]

\* Mutant of ApplyBuy: the average is taken over what is still held (running
\* cost / running quantity), not over everything the position ever bought.
ApplyBuy_Running(pos, order, amount, usdValue) ==
    [pos EXCEPT !.TotalAmount = RAdd(@, amount),
                !.TotalCostUSD = RAdd(@, usdValue),
                !.TotalInvestment = RAdd(@, usdValue),
                !.TotalQuantity = RAdd(@, amount),
                !.AverageCost = RDiv(RAdd(pos.TotalCostUSD, usdValue),
                                     RAdd(pos.TotalAmount, amount)),
                !.Transactions = Append(@, order)]

\* lines 1088-1097: a buy.  A buy of quantity 0 into a new position divides
\* 0 by 0: the average cost is NaN.
ApplyBuy(pos, order, amount, usdValue) ==
    LET inv == RAdd(pos.TotalInvestment, usdValue)
        qty == RAdd(pos.TotalQuantity, amount)
    IN  [pos EXCEPT !.TotalAmount = RAdd(@, amount),
                    !.TotalCostUSD = RAdd(@, usdValue),
                    !.TotalInvestment = inv,
                    !.TotalQuantity = qty,
                    !.AverageCost = RDiv(inv, qty),
                    !.Transactions = Append(@, order)]

\* Mutant of ClosesAt: the position closes only below zero.
ClosesAt_Strict(totalAmount) == RLess(totalAmount, Zero)

\* the running quantity at which line 1114 closes the position
ClosesAt(totalAmount) == RLeq(totalAmount, Zero)

\* lines 1100-1118: a sell; IsClosed is set when the running quantity is used up.
ApplySell(pos, order, amount, usdValue) ==
    LET averageCost == pos.AverageCost
        realized == RSub(usdValue, RMul(amount, averageCost))
        left == RSub(pos.TotalAmount, amount)
    IN  [pos EXCEPT !.RealizedPnL = RAdd(@, realized),
                    !.TotalAmount = left,
                    !.TotalCostUSD = RSub(@, RMul(amount, averageCost)),
                    !.Transactions = Append(@, order),
                    !.IsClosed = ClosesAt(left)]

\* Mutant of OpenOnBuy: any order opens a position when none is open.
OpenOnBuy_AnyOrder(cur, isBuy) == IF cur = <<>> THEN <<NewPosition>> ELSE cur

\* lines 1074-1085: a buy opens a position when none is open
OpenOnBuy(cur, isBuy) == IF cur = <<>> /\ isBuy THEN <<NewPosition>> ELSE cur

\* Mutant of AccountOrder: a position that closes is put at the head of the
\* list of positions.
AccountOrder_Prepend(st, order, targetMint, price) ==
    LET isBuy == order.BuyToken.Mint = targetMint
        isSell == order.SellToken.Mint = targetMint
        amount == parseTokenAmount(order, isBuy)
        usdValue == RMul(amount, price)
        opened == OpenOnBuy(st.currentPosition, isBuy)
        bought == IF isBuy /\ opened # <<>>
                  THEN <<ApplyBuy(opened[1], order, amount, usdValue)>> ELSE opened
        sold == IF isSell /\ bought # <<>>
                THEN <<ApplySell(bought[1], order, amount, usdValue)>> ELSE bought
    IN  IF sold # <<>> /\ sold[1].IsClosed
        THEN [positions |-> <<sold[1]>> \o st.positions, currentPosition |-> <<>>]
        ELSE [positions |-> st.positions, currentPosition |-> sold]

\* lines 1055-1119: the body of the loop of calculatePnL for one order priced
\* at `price`; st = [positions, currentPosition].
AccountOrder(st, order, targetMint, price) ==
    LET isBuy == order.BuyToken.Mint = targetMint
        isSell == order.SellToken.Mint = targetMint
        amount == parseTokenAmount(order, isBuy)
        usdValue == RMul(amount, price)
        opened == OpenOnBuy(st.currentPosition, isBuy)
        bought == IF isBuy /\ opened # <<>>
                  THEN <<ApplyBuy(opened[1], order, amount, usdValue)>> ELSE opened
        sold == IF isSell /\ bought # <<>>
                THEN <<ApplySell(bought[1], order, amount, usdValue)>> ELSE bought
    IN  IF sold # <<>> /\ sold[1].IsClosed
        THEN [positions |-> Append(st.positions, sold[1]), currentPosition |-> <<>>]
        ELSE [positions |-> st.positions, currentPosition |-> sold]

\* Mutant of Unrealized: the closed flag is not looked at.
Unrealized_Always(pos, price) ==
    truncateToDecimals(RSub(RMul(pos.TotalAmount, price), pos.TotalCostUSD), 2)

\* lines 1172-1179: nothing is unrealized in a closed position.
Unrealized(pos, price) ==
    IF ~pos.IsClosed
    THEN truncateToDecimals(RSub(RMul(pos.TotalAmount, price), pos.TotalCostUSD), 2)
    ELSE ZeroFloat

\* lines 1164-1167
PnlPercentage(pos) ==
    IF pos.TotalInvestment.n > 0
    THEN RMul(RDiv(pos.RealizedPnL, pos.TotalInvestment), Rat(100, 1))
    ELSE Zero

\* lines 1159-1190: the results one position can give.
PositionResults(pos, price) ==
    {[AverageCost |-> truncateToDecimals(pos.AverageCost, 9),
      ProfitLossPercentage |-> s,
      ProfitLossValue |-> truncateToDecimals(pos.RealizedPnL, 10),
      UnrealizedProfitLossValue |-> Unrealized(pos, price),
      IsClosed |-> pos.IsClosed] : s \in Sprintf2f(PnlPercentage(pos))}

\* lines 1150-1194: the result lists the positions can give, one result each.
RECURSIVE calculatePositionPnL(_, _)
calculatePositionPnL(poss, price) ==
    IF poss = <<>> THEN {<<>>}
    ELSE {<<r>> \o rest : r \in PositionResults(Head(poss), price),
                          rest \in calculatePositionPnL(Tail(poss), price)}

(***************************************************************************)
(* The orders and the prices the accountant is given.                      *)
(***************************************************************************)
\* Longest list of orders handed to calculatePnL.
MaxOrders == 3

\* Close prices the oracle answers: 1, 1.5 and 2^-10 = 0.0009765625 (a
\* float64 with ten digits after the point).
Prices == {Rat(1, 1), Rat(3, 2), Rat(1, 1024)}

\* Sizes of the target side of an order: 10 (no decimals) and 2 (20 with one
\* decimal).
Sizes == {[Amount |-> 10, Decimals |-> 0], [Amount |-> 20, Decimals |-> 1]}

\* An order as fetchJupiterOrders writes it: the target mint bought with SOL,
\* sold for SOL, or routed back into itself.
MkOrder(i, kind, size) ==
    LET target == [Mint |-> TargetMint, Amount |-> size.Amount, Decimals |-> size.Decimals]
        other  == [Mint |-> "SOL", Amount |-> size.Amount, Decimals |-> size.Decimals]
    IN  [Signature |-> i, Slot |-> i, BlockTime |-> i,
         BuyToken  |-> IF kind = "sell" THEN other ELSE target,
         SellToken |-> IF kind = "buy" THEN other ELSE target]

OrderKinds == {"buy", "sell", "both"}

RECURSIVE OrderLists(_)
OrderLists(n) ==
    IF n = 0 THEN {<<>>}
    ELSE LET shorter == OrderLists(n - 1)
         IN  shorter \cup {Append(l, MkOrder(n, k, z)) :
                              l \in {x \in shorter : Len(x) = n - 1},
                              k \in OrderKinds, z \in Sizes}

(***************************************************************************)
(* The state machine of one calculatePnL call.                             *)
(***************************************************************************)
IsBuy(order) == order.BuyToken.Mint = TargetMint
IsSell(order) == order.SellToken.Mint = TargetMint

\* the loop is at an order that needs a price, or past the last order, where
\* calculatePositionPnL asks for the current price (an order that touches
\* the target mint on neither side is passed over by lines 1059-1061;
\* fetchJupiterOrders emits none)
AsksOracle ==
    /\ stage = "account"
    /\ (cursor <= Len(sorted) => (IsBuy(sorted[cursor]) \/ IsSell(sorted[cursor])))

\* lines 1055-1119: one order, priced by the oracle at `price`
AccountStep(price) ==
    /\ AsksOracle
    /\ cursor <= Len(sorted)
    /\ LET st == AccountOrder([positions |-> positions, currentPosition |-> currentPosition],
                              sorted[cursor], TargetMint, price)
       IN  /\ positions' = st.positions
           /\ currentPosition' = st.currentPosition
    /\ cursor' = cursor + 1
    /\ quotes' = Append(quotes, <<price>>)
    /\ UNCHANGED <<stage, sorted, currentPrice, pnlResults, fvars, ovars, pvars, hvars, cvars>>

\* lines 1123-1128 and 1150-1194: the open position joins the list and every
\* position gets its result, the oracle giving the current price
PositionPnL(price) ==
    /\ AsksOracle
    /\ cursor > Len(sorted)
    /\ positions' = positions \o currentPosition
    /\ currentPrice' = <<price>>
    /\ pnlResults' \in calculatePositionPnL(positions', price)
    /\ stage' = "done"
    /\ UNCHANGED <<sorted, cursor, currentPosition, quotes, fvars, ovars, pvars, hvars, cvars>>

\* the oracle call fails: getHistoricalTokenPrice / getCurrentTokenPrice
\* return the error and calculatePnL returns it (lines 1070-1072, 1155-1157)
OracleError ==
    /\ AsksOracle
    /\ stage' = "err"
    /\ UNCHANGED <<sorted, cursor, positions, currentPosition, quotes, currentPrice,
                   pnlResults, fvars, ovars, pvars, hvars, cvars>>

\* the oracle answers with no candle: latest[0] is out of range
OracleEmpty ==
    /\ AsksOracle
    /\ stage' = "panic"
    /\ UNCHANGED <<sorted, cursor, positions, currentPosition, quotes, currentPrice,
                   pnlResults, fvars, ovars, pvars, hvars, cvars>>

InitAccountant ==
    /\ FetcherIdle
    /\ HandlerIdle
    /\ CallersIdle
    /\ ParserIdle
    /\ txList = <<>>
    /\ orders = <<>>
    /\ next = 1
    /\ out = "running"
    /\ stage = "account"
    /\ sorted \in OrderLists(MaxOrders)
    /\ cursor = 1
    /\ positions = <<>>
    /\ currentPosition = <<>>
    /\ quotes = <<>>
    /\ currentPrice = <<>>
    /\ pnlResults = <<>>

NextAccountant ==
    \/ \E p \in Prices : AccountStep(p)
    \/ \E p \in Prices : PositionPnL(p)
    \/ OracleError
    \/ OracleEmpty

SpecAccountant == InitAccountant /\ [][NextAccountant]_vars

(***************************************************************************)
(* The state machine of one CalculatePnL call: fetchJupiterOrders (the     *)
(* actions FetchStep and FetchReturn of Part II), the sort by block time,  *)
(* calculatePnL.                                                           *)
(***************************************************************************)
\* Longest txList given to CalculatePnL.
MaxPnlTx == 2

\* The transactions: a sale and a purchase of the target mint, one without a
\* route, and malformed ones: an aggregator instruction of fewer than 16 data
\* bytes, a program-id index and a token-balance account index beyond the
\* account list, no metadata; a purchase with no change of the wallet's
\* balances.
\* The wallet's token rows: 1.0 -> 0.4 of the target mint, 0.1 -> 0.4 of the
\* other one (one decimal each).
PnlRows ==
    [pre  |-> <<[Row(4, "W", "T", 10) EXCEPT !.Decimals = 1],
                [Row(5, "W", "U", 1) EXCEPT !.Decimals = 1]>>,
     post |-> <<[Row(4, "W", "T", 4) EXCEPT !.Decimals = 1],
                [Row(5, "W", "U", 4) EXCEPT !.Decimals = 1]>>]
SaleTx == MkRaw(1, <<Ev("T", "U")>>, PnlRows, "none", "legacy")
PurchaseTx == MkRaw(1, <<Ev("U", "T")>>, PnlRows, "none", "legacy")
\* a purchase that leaves the wallet's balances as they were (the bought
\* tokens went to another owner's account): every delta of the wallet is 0
ZeroDeltaTx == [PurchaseTx EXCEPT !.Meta[1].PostTokenBalances = PnlRows.pre]
PnlRaws ==
    { SaleTx, PurchaseTx,
      MkRaw(0, <<>>, PnlRows, "none", "legacy"),
      [SaleTx EXCEPT !.Instructions[2].Data.long = FALSE],
      [SaleTx EXCEPT !.Instructions[1].ProgramIDIndex = 9],
      [SaleTx EXCEPT !.Meta[1].PreTokenBalances = <<Row(9, "W", "T", 10)>>],
      MkRaw(1, <<Ev("T", "U")>>, PnlRows, "nometa", "v0"),
      ZeroDeltaTx }

\* Transaction i of a list carries signature i; block times and slots are
\* free, so two transactions can share a block time and the list need not
\* be in time order.
RECURSIVE PnlTxLists(_)
PnlTxLists(n) ==
    IF n = 0 THEN {<<>>}
    ELSE LET shorter == PnlTxLists(n - 1)
         IN  shorter \cup
             {Append(l, [Signature |-> n, Slot |-> sl, BlockTime |-> bt, RawTx |-> r]) :
                 l \in {x \in shorter : Len(x) = n - 1},
                 sl \in 1..2, bt \in 1..2, r \in PnlRaws}

\* line 886-888: sort.Slice with orders[i].BlockTime.Before(orders[j].BlockTime).
\* sort.Slice is not stable: the orders that share a block time come out in
\* any order.  The result is the set of the lists the call can give.
SortByBlockTime(os) ==
    LET n == Len(os)
        perms == {f \in [1..n -> 1..n] : \A a, b \in 1..n : a # b => f[a] # f[b]}
    IN  {[i \in 1..n |-> os[f[i]]] : f \in {g \in perms :
            \A a, b \in 1..n : a < b => os[g[a]].BlockTime <= os[g[b]].BlockTime}}

\* lines 880-883: fetchJupiterOrders returned an error; so does CalculatePnL
FetchError ==
    /\ out = "err"
    /\ stage = "idle"
    /\ stage' = "err"
    /\ UNCHANGED <<sorted, cursor, positions, currentPosition, quotes, currentPrice,
                   pnlResults, fvars, ovars, pvars, hvars, cvars>>

\* lines 886-891: the orders are sorted and handed to calculatePnL
SortOrders ==
    /\ out = "ok"
    /\ stage = "idle"
    /\ sorted' \in SortByBlockTime(orders)
    /\ stage' = "account"
    /\ UNCHANGED <<cursor, positions, currentPosition, quotes, currentPrice,
                   pnlResults, fvars, ovars, pvars, hvars, cvars>>

InitPnL ==
    /\ FetcherIdle
    /\ HandlerIdle
    /\ CallersIdle
    /\ AccountantIdle
    /\ ParserIdle
    /\ txList \in PnlTxLists(MaxPnlTx)
    /\ orders = <<>>
    /\ next = 1
    /\ out = "running"

NextPnL ==
    \/ FetchStep
    \/ FetchReturn
    \/ FetchError
    \/ SortOrders
    \/ \E p \in Prices : AccountStep(p)
    \/ \E p \in Prices : PositionPnL(p)
    \/ OracleError
    \/ OracleEmpty

SpecPnL == InitPnL /\ [][NextPnL]_vars

(***************************************************************************)
(* Part IV: one transaction taken through the balance extractor, the tree  *)
(* builder and the swap locator.                                           *)
(***************************************************************************)
\* Largest number of top-level instructions of a transaction.
MaxTop == 2

\* what an inner-instruction group can hold
GroupMembers ==
    { <<OtherInstr>>,
      <<EventInstr(Ev("T", "U"))>>,
      <<EventInstr(Ev(WrappedSOL, "U")), OtherInstr, EventInstr(Ev("U", "T"))>>,
      <<EventInstr(Undecodable), EventInstr(Ev("U", "T"))>>,
      <<EventInstr(Ev("T", "U")), EventInstr(Undecodable), EventInstr(Ev("U", WrappedSOL))>> }

\* The inner-instruction groups of a transaction of n top-level instructions:
\* none; one group, for any of them or (index n) for none of them; two
\* groups, the group of the last instruction listed before the group of the
\* first.
GroupLists(n) ==
    {<<>>}
    \cup {<<[Index |-> g, Instructions |-> m]>> : g \in 0..n, m \in GroupMembers}
    \cup {<<[Index |-> n - 1, Instructions |-> <<EventInstr(Ev("U", WrappedSOL))>>],
            [Index |-> 0, Instructions |-> <<OtherInstr, EventInstr(Ev("T", "U"))>>]>>}

ParseRaw(tops, groups, rows) ==
    [parseOK |-> TRUE,
     version |-> "legacy",
     AccountKeys |-> Keys,
     Instructions |-> tops,
     Meta |-> <<[Writable |-> <<>>, ReadOnly |-> <<>>,
                 InnerInstructions |-> groups,
                 PreBalances |-> <<9, 5, 0, 0, 0, 0>>,
                 PostBalances |-> <<7, 5, 0, 0, 0, 0>>,
                 PreTokenBalances |-> rows.pre,
                 PostTokenBalances |-> rows.post]>>]

ParseUniverse ==
    UNION {{ParseRaw(tops, groups, rows) :
               tops \in [1..n -> {OtherInstr, RouteInstr}],
               groups \in GroupLists(n),
               rows \in BalanceRows} : n \in 1..MaxTop}

\* GetBalanceChanges on the transaction, with the account list
\* GetFullAccountKeys gives
Extract ==
    /\ pstage = "start"
    /\ balances' = GetBalanceChanges(parsedTx, GetFullAccountKeys(parsedTx).keys)
    /\ pstage' = "extracted"
    /\ UNCHANGED <<parsedTx, treeOut, located, fullAccountKeys,
                   fvars, ovars, avars, hvars, cvars>>

\* ParseInstructionTreeByStackHeight on the transaction
BuildTree ==
    /\ pstage = "extracted"
    /\ treeOut' = ParseInstructionTreeByStackHeight(parsedTx)
    /\ pstage' = "tree"
    /\ UNCHANGED <<parsedTx, located, balances, fullAccountKeys,
                   fvars, ovars, avars, hvars, cvars>>

\* FindNodesByProgramID on the tree, then the sell and the buy mint from the
\* event nodes (lines 939-962 of fetchJupiterOrders)
Locate ==
    /\ pstage = "tree"
    /\ ~treeOut.err
    /\ LET found == FindNodesByProgramID(GetFullAccountKeys(parsedTx).keys, treeOut, JupiterPID)
           m == DeriveMints(treeOut.nodes, found.event)
       IN  located' = [route |-> found.route, event |-> found.event, err |-> m.err,
                       sellTokenMint |-> Normalize(m.sell),
                       buyTokenMint |-> Normalize(m.buy)]
    /\ pstage' = "located"
    /\ UNCHANGED <<parsedTx, treeOut, balances, fullAccountKeys,
                   fvars, ovars, avars, hvars, cvars>>

InitParse ==
    /\ FetcherIdle
    /\ HandlerIdle
    /\ CallersIdle
    /\ AccountantIdle
    /\ txList = <<>>
    /\ orders = <<>>
    /\ next = 1
    /\ out = "running"
    /\ parsedTx \in ParseUniverse
    /\ pstage = "start"
    /\ treeOut = <<>>
    /\ located = <<>>
    /\ balances = <<>>
    /\ fullAccountKeys = <<>>

NextParse == Extract \/ BuildTree \/ Locate

SpecParse == InitParse /\ [][NextParse]_vars

(***************************************************************************)
(* Part V: one GET /pnl request in PnLHandler.GetPnL.                      *)
(***************************************************************************)
\* Strings of the query are sequences of characters.
DigitChars == <<"0", "1", "2", "3", "4", "5", "6", "7", "8", "9">>
IsDigit(c) == \E d \in 1..10 : DigitChars[d] = c
DigitVal(c) == (CHOOSE d \in 1..10 : DigitChars[d] = c) - 1

RECURSIVE DecimalValue(_)
DecimalValue(cs) ==
    IF cs = <<>> THEN 0
    ELSE 10 * DecimalValue(SubSeq(cs, 1, Len(cs) - 1)) + DigitVal(cs[Len(cs)])

\* strconv.Atoi: an optional sign and at least one digit, nothing else.
Atoi(str) ==
    LET signed == str # <<>> /\ str[1] \in {"+", "-"}
        digits == IF signed THEN Tail(str) ELSE str
    IN  IF digits = <<>> \/ \E i \in 1..Len(digits) : ~IsDigit(digits[i])
        THEN [err |-> TRUE, n |-> 0]
        ELSE [err |-> FALSE,
              n |-> IF signed /\ str[1] = "-" THEN 0 - DecimalValue(digits)
                    ELSE DecimalValue(digits)]

\* gin c.DefaultQuery: the value of the parameter when the query has the key
\* (<<v>>), the default when it has not (<<>>).
DefaultQuery(param, defaultValue) ==
    IF param = <<>> THEN defaultValue ELSE param[1]

\* line 53: the default of the limit parameter, "100"
DefaultLimit == <<"1", "0", "0">>

\* the bodies c.JSON writes
ErrorBody(status) == [status |-> status, kind |-> "error"]
ResultBody == [status |-> 200, kind |-> "results"]

\* The requests: wallet and mint present or empty; limit absent, empty, a
\* number, or not a number.
LimitParams ==
    {<<>>, <<<<>>>>, <<<<"3">>>>, <<<<"3", "0">>>>, <<<<"-", "1">>>>,
     <<<<"a", "b", "c">>>>, <<<<"3", "x">>>>}
Queries ==
    [userAddress : {"", "W", "X"}, tokenMint : {"", "T"}, limit : LimitParams]

\* lines 51-61: the parameters are read; a missing wallet or mint is answered
\* with the error payload (400) and nothing else is done.
Validate ==
    /\ hstage = "entered"
    /\ IF query.userAddress = "" \/ query.tokenMint = ""
         THEN /\ bodies' = Append(bodies, ErrorBody(400))
              /\ hstage' = "done"
         ELSE /\ hstage' = "validated"
              /\ UNCHANGED bodies
    /\ UNCHANGED <<query, hlimit, fetchOut, computeOut, fvars, ovars, avars, pvars, cvars>>

\* lines 53, 63-68: the limit string is converted; when strconv.Atoi fails the
\* handler prints the error and returns, writing no body.
ParseLimit ==
    /\ hstage = "validated"
    /\ LET parsed == Atoi(DefaultQuery(query.limit, DefaultLimit))
       IN  IF parsed.err
           THEN /\ hstage' = "done"
                /\ UNCHANGED hlimit
           ELSE /\ hlimit' = <<parsed.n>>
                /\ hstage' = "parsed"
    /\ UNCHANGED <<query, fetchOut, computeOut, bodies, fvars, ovars, avars, pvars, cvars>>

\* lines 70-81: GetTransactions returns transactions, returns an error (the
\* error payload is written, 500, and the handler returns) or panics (the
\* Recovery middleware of gin.Default ends the request without a body).
Fetch(outcome) ==
    /\ hstage = "parsed"
    /\ fetchOut' = outcome
    /\ IF outcome = "err"
         THEN /\ bodies' = Append(bodies, ErrorBody(500))
              /\ hstage' = "done"
         ELSE /\ hstage' = IF outcome = "panic" THEN "recovered" ELSE "fetched"
              /\ UNCHANGED bodies
    /\ UNCHANGED <<query, hlimit, computeOut, fvars, ovars, avars, pvars, cvars>>

\* lines 83-88: CalculatePnL returns results ("nan": results that hold a NaN
\* figure), returns an error (the error payload is written, 500, and the
\* handler goes on: there is no return in that branch) or panics.
Compute(outcome) ==
    /\ hstage = "fetched"
    /\ computeOut' = outcome
    /\ IF outcome = "err"
         THEN /\ bodies' = Append(bodies, ErrorBody(500))
              /\ hstage' = "computed"
         ELSE /\ hstage' = IF outcome = "panic" THEN "recovered" ELSE "computed"
              /\ UNCHANGED bodies
    /\ UNCHANGED <<query, hlimit, fetchOut, fvars, ovars, avars, pvars, cvars>>

\* lines 90-101: the results are marshalled for the log (json.MarshalIndent
\* fails on a NaN figure and the handler returns) and written with c.JSON
\* (results are nil after an error: the body is null).
Respond ==
    /\ hstage = "computed"
    /\ IF computeOut = "nan"
         THEN UNCHANGED bodies
         ELSE bodies' = Append(bodies, ResultBody)
    /\ hstage' = "done"
    /\ UNCHANGED <<query, hlimit, fetchOut, computeOut, fvars, ovars, avars, pvars, cvars>>

InitHandler ==
    /\ FetcherIdle
    /\ CallersIdle
    /\ AccountantIdle
    /\ ParserIdle
    /\ txList = <<>>
    /\ orders = <<>>
    /\ next = 1
    /\ out = "running"
    /\ hstage = "entered"
    /\ query \in Queries
    /\ hlimit = <<>>
    /\ fetchOut = "none"
    /\ computeOut = "none"
    /\ bodies = <<>>

NextHandler ==
    \/ Validate
    \/ ParseLimit
    \/ \E o \in {"ok", "err", "panic"} : Fetch(o)
    \/ \E o \in {"ok", "nan", "err", "panic"} : Compute(o)
    \/ Respond

SpecHandler == InitHandler /\ [][NextHandler]_vars

(***************************************************************************)
(* Part VI: getBatchTransactions run by concurrent GetTransactions calls   *)
(* on one PnlService.  getCachedTransactions runs under the read lock and  *)
(* cacheTransactions under the write lock of cacheMutex: each is one step; *)
(* no lock is held while concurrentGetTransactions runs.                   *)
(***************************************************************************)
\* Number of GetTransactions calls that run at the same time.
MaxCalls == 2

\* the signature lists the calls can ask for
CallSignatures == {<<1>>, <<2>>, <<1, 2>>, <<2, 1>>}

\* lines 294-299: the Transaction a call allocates for a signature; ptr names
\* the allocation (the cache holds pointers)
AllocTransaction(c, sig) ==
    [Signature |-> sig, Slot |-> 1, BlockTime |-> 1, ptr |-> <<c, sig>>]

StartedCall(sigs) ==
    [pc |-> "start", signatures |-> sigs, cached |-> <<>>, remaining |-> <<>>,
     newTransactions |-> <<>>]

\* lines 165-168 and 215-232: the cache is read under RLock; with nothing
\* left to fetch the call returns the hits
getCachedTransactions(c) ==
    /\ c \in DOMAIN callers
    /\ callers[c].pc = "start"
    /\ LET hit == CachedOf(cacheMap, callers[c].signatures)
           miss == RemainingOf(cacheMap, callers[c].signatures)
       IN  callers' = [callers EXCEPT ![c].cached = hit,
                                      ![c].remaining = miss,
                                      ![c].pc = IF miss = <<>> THEN "returned"
                                                ELSE "fetching"]
    /\ UNCHANGED <<cacheMap, writes, fvars, ovars, avars, pvars, hvars>>

\* lines 172 and 246-336: concurrentGetTransactions returns one Transaction
\* per missing signature
FetchAll(c) ==
    /\ c \in DOMAIN callers
    /\ callers[c].pc = "fetching"
    /\ callers' = [callers EXCEPT
                     ![c].newTransactions =
                         [i \in 1..Len(callers[c].remaining) |->
                             AllocTransaction(c, callers[c].remaining[i])],
                     ![c].pc = "fetched"]
    /\ UNCHANGED <<cacheMap, writes, fvars, ovars, avars, pvars, hvars>>

\* lines 172-175: a request of the batch failed; the call ends (with the
\* error, or in the panic of line 320) and the cache is not written
FetchFailed(c) ==
    /\ c \in DOMAIN callers
    /\ callers[c].pc = "fetching"
    /\ callers' = [callers EXCEPT ![c].pc = "failed"]
    /\ UNCHANGED <<cacheMap, writes, fvars, ovars, avars, pvars, hvars>>

\* lines 178-180 and 234-243: the new transactions are written to the cache
\* under Lock, whatever the cache holds by now, and the call returns
Store(c) ==
    /\ c \in DOMAIN callers
    /\ callers[c].pc = "fetched"
    /\ cacheMap' = cacheTransactions(cacheMap, callers[c].newTransactions)
    /\ writes' = writes \o [i \in 1..Len(callers[c].newTransactions) |->
                                [key |-> callers[c].newTransactions[i].Signature,
                                 tx |-> callers[c].newTransactions[i]]]
    /\ callers' = [callers EXCEPT ![c].pc = "returned"]
    /\ UNCHANGED <<fvars, ovars, avars, pvars, hvars>>

InitCache ==
    /\ FetcherIdle
    /\ HandlerIdle
    /\ AccountantIdle
    /\ ParserIdle
    /\ txList = <<>>
    /\ orders = <<>>
    /\ next = 1
    /\ out = "running"
    /\ callers \in [1..MaxCalls -> {StartedCall(sigs) : sigs \in CallSignatures}]
    /\ cacheMap = <<>>
    /\ writes = <<>>

NextCache ==
    \/ \E c \in 1..MaxCalls : getCachedTransactions(c)
    \/ \E c \in 1..MaxCalls : FetchAll(c)
    \/ \E c \in 1..MaxCalls : FetchFailed(c)
    \/ \E c \in 1..MaxCalls : Store(c)

SpecCache == InitCache /\ [][NextCache]_vars

(***************************************************************************)
(* Part VII: GetFullAccountKeys applied to one transaction.                *)
(***************************************************************************)
\* The transactions: legacy and versioned messages, one to three static
\* keys, up to two writable and two read-only addresses loaded from lookup
\* tables; a transaction without metadata; an envelope that does not decode.
KeysRaw(ok, version, static, meta) ==
    [parseOK |-> ok, version |-> version, AccountKeys |-> static,
     Instructions |-> <<>>, Meta |-> meta]
LoadedMeta(writable, readOnly) ==
    <<[Writable |-> writable, ReadOnly |-> readOnly,
       InnerInstructions |-> <<>>, PreBalances |-> <<>>, PostBalances |-> <<>>,
       PreTokenBalances |-> <<>>, PostTokenBalances |-> <<>>]>>
StaticKeyLists == {<<"W">>, <<"W", "X">>, <<"W", "X", "J">>}
KeysUniverse ==
    {KeysRaw(TRUE, v, st, LoadedMeta(w, r)) :
        v \in {"legacy", "v0"}, st \in StaticKeyLists,
        w \in {<<>>, <<"L1">>, <<"L1", "L2">>},
        r \in {<<>>, <<"R1">>, <<"R1", "R2">>}}
    \cup {KeysRaw(TRUE, v, st, <<>>) : v \in {"legacy", "v0"}, st \in StaticKeyLists}
    \cup {KeysRaw(FALSE, "legacy", <<>>, <<>>)}

\* line 906: fullAccountKeys, err := GetFullAccountKeys(tx.RawTx)
ResolveKeys ==
    /\ pstage = "start"
    /\ fullAccountKeys' = GetFullAccountKeys(parsedTx)
    /\ pstage' = "keys"
    /\ UNCHANGED <<parsedTx, treeOut, located, balances, fvars, ovars, avars, hvars, cvars>>

InitKeys ==
    /\ FetcherIdle
    /\ HandlerIdle
    /\ CallersIdle
    /\ AccountantIdle
    /\ txList = <<>>
    /\ orders = <<>>
    /\ next = 1
    /\ out = "running"
    /\ parsedTx \in KeysUniverse
    /\ pstage = "start"
    /\ treeOut = <<>>
    /\ located = <<>>
    /\ balances = <<>>
    /\ fullAccountKeys = <<>>

NextKeys == ResolveKeys

SpecKeys == InitKeys /\ [][NextKeys]_vars

(***************************************************************************)
(* Part I: the state machine of one PnlService serving GetTransactions     *)
(* calls one after the other.                                              *)
(***************************************************************************)
None == [kind |-> "none", txs |-> <<>>, err |-> NoErr]
Ok(txs) == [kind |-> "ok", txs |-> txs, err |-> NoErr]
Err(e) == [kind |-> "err", txs |-> <<>>, err |-> e]
Panic == [kind |-> "panic", txs |-> <<>>, err |-> NoErr]

InFlight == Cardinality({i \in DOMAIN workers : workers[i] = "inflight"})
AllWorkersDone == \A i \in DOMAIN workers : workers[i] = "done"
CallEnded == pc \in {"returned", "panicked"}

Init ==
    /\ FetcherIdle
    /\ HandlerIdle
    /\ CallersIdle
    /\ AccountantIdle
    /\ ParserIdle
    /\ txList = <<>>
    /\ orders = <<>>
    /\ next = 1
    /\ out = "running"

\* Environment: a new transaction of the wallet lands on chain.
ChainAppend(raw) ==
    /\ pc \in {"idle", "returned", "panicked"}
    /\ Len(chain) < MaxSigs
    /\ chain' = Append(chain, raw)
    /\ UNCHANGED <<cache, pc, limit, allSignatures, before, pageSize, pages,
                   signatures, cached, remaining, semCap, workers, resultChan,
                   results, firstErr, batchOut, ret, fetched, failed, cache0>>
    /\ UNCHANGED <<ovars, avars, pvars, hvars, cvars>>

\* GetTransactions is entered; getPaginatedSignatures parses the address and
\* sets up its loop (lines 115-124).
GetTransactions(userOK, lim) ==
    /\ pc \in {"idle", "returned", "panicked"}
    /\ AllWorkersDone
    /\ limit' = lim
    /\ allSignatures' = <<>>
    /\ before' = NoSig
    /\ pageSize' = batchSize
    /\ pages' = <<>>
    /\ signatures' = <<>>
    /\ cached' = <<>>
    /\ remaining' = <<>>
    /\ semCap' = 0
    /\ workers' = <<>>
    /\ resultChan' = <<>>
    /\ results' = <<>>
    /\ firstErr' = NoErr
    /\ batchOut' = None
    /\ fetched' = [s \in 1..MaxSigs |-> 0]
    /\ failed' = <<>>
    /\ cache0' = {}
    /\ IF ~userOK
         THEN /\ ret' = Err(<<NoSig>>)
              /\ pc' = "returned"
         ELSE /\ ret' = None
              /\ pc' = IF 0 < lim THEN "page" ELSE "batch"
    /\ UNCHANGED <<chain, cache>>
    /\ UNCHANGED <<ovars, avars, pvars, hvars, cvars>>

\* lines 126-140: the page size is computed and the page is requested.
PageRequest ==
    /\ pc = "page"
    /\ pageSize' = NextPageSize(pageSize, limit, Len(allSignatures))
    /\ pages' = Append(pages, [size |-> pageSize', before |-> before,
                               had |-> Len(allSignatures), got |-> <<>>,
                               answered |-> FALSE])
    /\ pc' = "rpcSigs"
    /\ UNCHANGED <<chain, cache, limit, allSignatures, before, signatures, cached,
                   remaining, semCap, workers, resultChan, results, firstErr,
                   batchOut, ret, fetched, failed, cache0>>
    /\ UNCHANGED <<ovars, avars, pvars, hvars, cvars>>

\* lines 144-158: the RPC answers with k signatures older than the cursor
\* (never more than the Limit it was given).
PageResponse(k) ==
    /\ pc = "rpcSigs"
    /\ k \in 0..Min(pageSize, Len(OlderThan(before)))
    /\ LET sigs == SubSeq(OlderThan(before), 1, k)
           all  == allSignatures \o sigs
       IN  /\ pages' = [pages EXCEPT ![Len(pages)].got = sigs,
                                     ![Len(pages)].answered = TRUE]
           /\ allSignatures' = all
           /\ before' = IF k = 0 THEN before ELSE sigs[k]
           /\ pc' = IF k = 0 \/ k < pageSize \/ ~(Len(all) < limit)
                     THEN "batch" ELSE "page"
    /\ UNCHANGED <<chain, cache, limit, pageSize, signatures, cached, remaining,
                   semCap, workers, resultChan, results, firstErr, batchOut, ret,
                   fetched, failed, cache0>>
    /\ UNCHANGED <<ovars, avars, pvars, hvars, cvars>>

\* lines 141-143 and 51-53: the page request fails, GetTransactions returns the error.
PageError ==
    /\ pc = "rpcSigs"
    /\ ret' = Err(<<NoSig>>)
    /\ pc' = "returned"
    /\ UNCHANGED <<chain, cache, limit, allSignatures, before, pageSize, pages,
                   signatures, cached, remaining, semCap, workers, resultChan,
                   results, firstErr, batchOut, fetched, failed, cache0>>
    /\ UNCHANGED <<ovars, avars, pvars, hvars, cvars>>

\* lines 54-59, 163-168, 246-316: no signature, all cached, or the workers are started.
StartBatch ==
    /\ pc = "batch"
    /\ signatures' = allSignatures
    /\ IF allSignatures = <<>>
         THEN /\ ret' = Ok(<<>>)
              /\ pc' = "returned"
              /\ UNCHANGED <<cached, remaining, semCap, workers, results, batchOut,
                             cache0>>
         ELSE LET hit  == CachedOf(cache, allSignatures)
                  miss == RemainingOf(cache, allSignatures)
              IN  /\ cached' = hit
                  /\ remaining' = miss
                  /\ cache0' = DOMAIN cache
                  /\ IF miss = <<>>
                       THEN /\ batchOut' = Ok(hit)
                            /\ ret' = Ok(sortTransactionsByTime(hit))
                            /\ pc' = "returned"
                            /\ UNCHANGED <<semCap, workers, results>>
                       ELSE /\ semCap' = SemaphoreCap(miss)
                            /\ workers' = [i \in 1..Len(miss) |-> "waiting"]
                            /\ results' = [i \in 1..Len(miss) |-> NoTx]
                            /\ pc' = "collect"
                            /\ UNCHANGED <<batchOut, ret>>
    /\ UNCHANGED <<chain, cache, limit, allSignatures, before, pageSize, pages,
                   resultChan, firstErr, fetched, failed>>
    /\ UNCHANGED <<ovars, avars, pvars, hvars, cvars>>

\* lines 261-274: worker i takes a semaphore slot and issues its GetTransaction.
WorkerAcquire(i) ==
    /\ i \in DOMAIN workers
    /\ workers[i] = "waiting"
    /\ InFlight < semCap
    /\ workers' = [workers EXCEPT ![i] = "inflight"]
    /\ fetched' = [fetched EXCEPT ![remaining[i]] = @ + 1]
    /\ UNCHANGED <<chain, cache, pc, limit, allSignatures, before, pageSize, pages,
                   signatures, cached, remaining, semCap, resultChan, results,
                   firstErr, batchOut, ret, failed, cache0>>
    /\ UNCHANGED <<ovars, avars, pvars, hvars, cvars>>

\* lines 285-305: the request returns a transaction; the worker sends its
\* tagged result, frees its slot and is done.
WorkerSuccess(i) ==
    /\ i \in DOMAIN workers
    /\ workers[i] = "inflight"
    /\ workers' = [workers EXCEPT ![i] = "done"]
    /\ resultChan' = Append(resultChan,
                            [index |-> i,
                             tx    |-> NewTransaction(remaining[i], chain[remaining[i]]),
                             err   |-> NoErr])
    /\ UNCHANGED <<chain, cache, pc, limit, allSignatures, before, pageSize, pages,
                   signatures, cached, remaining, semCap, results, firstErr,
                   batchOut, ret, fetched, failed, cache0>>
    /\ UNCHANGED <<ovars, avars, pvars, hvars, cvars>>

\* lines 276-283: the request fails (or finds nothing); the worker sends the error.
WorkerFailure(i) ==
    /\ i \in DOMAIN workers
    /\ workers[i] = "inflight"
    /\ workers' = [workers EXCEPT ![i] = "done"]
    /\ resultChan' = Append(resultChan,
                            [index |-> i, tx |-> NoTx, err |-> <<remaining[i]>>])
    /\ failed' = Append(failed, i)
    /\ UNCHANGED <<chain, cache, pc, limit, allSignatures, before, pageSize, pages,
                   signatures, cached, remaining, semCap, results, firstErr,
                   batchOut, ret, fetched, cache0>>
    /\ UNCHANGED <<ovars, avars, pvars, hvars, cvars>>

\* lines 319-329: one result is received.  Line 320 reads res.tx.Signature
\* before anything else: with res.tx nil the calling goroutine panics.
Collect ==
    /\ pc = "collect"
    /\ resultChan # <<>>
    /\ LET res == Head(resultChan)
           arrival == Cardinality({i \in DOMAIN results : results[i] # NoTx}) + 1
       IN  /\ resultChan' = Tail(resultChan)
           /\ IF res.tx = NoTx
                THEN /\ pc' = "panicked"
                     /\ ret' = Panic
                     /\ UNCHANGED <<results, firstErr>>
                ELSE /\ firstErr' = IF res.err # NoErr /\ firstErr = NoErr
                                    THEN res.err ELSE firstErr
                     /\ results' = [results EXCEPT ![ResultSlot(res, arrival)] = res.tx]
                     /\ UNCHANGED <<pc, ret>>
    /\ UNCHANGED <<chain, cache, limit, allSignatures, before, pageSize, pages,
                   signatures, cached, remaining, semCap, workers, batchOut,
                   fetched, failed, cache0>>
    /\ UNCHANGED <<ovars, avars, pvars, hvars, cvars>>

\* lines 310-313, 331-335, 173-180, 60-67: the channel is closed and drained;
\* the batch is returned, cached, merged with the hits and sorted.
CollectDone ==
    /\ pc = "collect"
    /\ resultChan = <<>>
    /\ AllWorkersDone
    /\ IF firstErr # NoErr
         THEN /\ batchOut' = Err(firstErr)
              /\ ret' = Err(firstErr)
              /\ UNCHANGED cache
         ELSE /\ cache' = cacheTransactions(cache, results)
              /\ batchOut' = Ok(cached \o results)
              /\ ret' = Ok(sortTransactionsByTime(cached \o results))
    /\ pc' = "returned"
    /\ UNCHANGED <<chain, limit, allSignatures, before, pageSize, pages, signatures,
                   cached, remaining, semCap, workers, resultChan, results, firstErr,
                   fetched, failed, cache0>>
    /\ UNCHANGED <<ovars, avars, pvars, hvars, cvars>>

Next ==
    \/ \E raw \in RawTxs : ChainAppend(raw)
    \/ \E userOK \in BOOLEAN, lim \in 0..MaxLimit : GetTransactions(userOK, lim)
    \/ PageRequest
    \/ \E k \in 0..batchSize : PageResponse(k)
    \/ PageError
    \/ StartBatch
    \/ \E i \in 1..MaxSigs : WorkerAcquire(i)
    \/ \E i \in 1..MaxSigs : WorkerSuccess(i)
    \/ \E i \in 1..MaxSigs : WorkerFailure(i)
    \/ Collect
    \/ CollectDone

Spec == Init /\ [][Next]_vars

(***************************************************************************)
(* Claims about the fetcher (checked under Spec).                          *)
(***************************************************************************)
Ascending(txs) ==
    \A i \in 1..(Len(txs) - 1) :
        \/ txs[i].BlockTime < txs[i + 1].BlockTime
        \/ (txs[i].BlockTime = txs[i + 1].BlockTime /\ txs[i].Slot <= txs[i + 1].Slot)

SigsOf(txs) == [i \in 1..Len(txs) |-> txs[i].Signature]
Hits == SelectSeq(signatures, LAMBDA s : s \in cache0)
Misses == SelectSeq(signatures, LAMBDA s : s \notin cache0)

\* C1: when a single-transaction fetch of the batch failed, the call ends by
\* returning an error, the first one reported, and no list of transactions.
C1_BatchFailsWithFirstError ==
    (CallEnded /\ failed # <<>>) =>
        /\ ret.kind = "err"
        /\ ret.err = <<remaining[failed[1]]>>
        /\ ret.txs = <<>>

\* C2: at every moment at most `concurrency` single-transaction requests of
\* the batch are in flight.
C2_AtMostWInFlight == InFlight <= concurrency

\* C3: the sequence GetTransactions returns holds every requested transaction
\* once and is ascending by (block time, slot); a transaction without a block
\* time carries the zero time and precedes every transaction that has one.
C3_ReturnedAscending ==
    ret.kind = "ok" =>
        /\ Ascending(ret.txs)
        /\ Len(ret.txs) = Len(signatures)
        /\ Range(SigsOf(ret.txs)) = Range(signatures)
        /\ \A i \in 1..Len(ret.txs) :
              chain[ret.txs[i].Signature].BlockTime = <<>> =>
                  /\ ret.txs[i].BlockTime = ZeroTime
                  /\ \A j \in 1..Len(ret.txs) :
                        chain[ret.txs[j].Signature].BlockTime # <<>> => i < j

\* C3 witness: three transactions returned, hits and misses merged, one without
\* a block time, two sharing a block time, and the sort changed the merge order.
C3_Witness ==
    /\ ret.kind = "ok"
    /\ Len(ret.txs) = 3
    /\ cached # <<>>
    /\ remaining # <<>>
    /\ batchOut.txs # ret.txs
    /\ \E i \in 1..3 : chain[ret.txs[i].Signature].BlockTime = <<>>
    /\ \E i, j \in 1..3 : i # j /\ ret.txs[i].BlockTime = ret.txs[j].BlockTime
                                 /\ ret.txs[i].BlockTime # ZeroTime

\* C4: a call never issues a request for a signature the cache held, never
\* more than one for a signature it did not hold, and once its workers are
\* through it has issued exactly one for each requested signature not cached.
C4_FetchExactlyMisses ==
    /\ \A s \in 1..MaxSigs :
          fetched[s] <= (IF s \in Range(signatures) \ cache0 THEN 1 ELSE 0)
    /\ (signatures # <<>> /\ AllWorkersDone) =>
          \A s \in Range(signatures) \ cache0 : fetched[s] = 1

\* C4 witness: three signatures requested, some cached and some not, all
\* workers through.
C4_Witness ==
    /\ pc = "returned"
    /\ AllWorkersDone
    /\ Len(signatures) = 3
    /\ Hits # <<>>
    /\ Len(Misses) >= 2
    /\ \A s \in Range(Misses) : fetched[s] = 1

\* C5 (as claimed): position i of the result of the batch fetch holds the
\* transaction of the i-th requested signature.
C5_ResultInRequestOrder ==
    batchOut.kind = "ok" =>
        \A i \in 1..Len(signatures) : batchOut.txs[i].Signature = signatures[i]

\* C5 (amended): concurrentGetTransactions stores each transaction at the
\* position of its signature in the batch it was given, whatever the arrival
\* order; the result of getBatchTransactions is the cache hits in request
\* order followed by the fetched transactions in request order.
C5_HitsThenMissesInRequestOrder ==
    /\ \A i \in DOMAIN results :
          results[i] # NoTx => results[i] = NewTransaction(Misses[i], chain[Misses[i]])
    /\ batchOut.kind = "ok" =>
          /\ SigsOf(batchOut.txs) = Hits \o Misses
          /\ \A i \in 1..Len(batchOut.txs) :
                batchOut.txs[i] = NewTransaction(batchOut.txs[i].Signature,
                                                 chain[batchOut.txs[i].Signature])

\* C5 witness: a returned batch with a cache hit requested after a miss and
\* at least two fetched transactions.
C5_Witness ==
    /\ batchOut.kind = "ok"
    /\ Len(Misses) >= 2
    /\ Hits # <<>>
    /\ SigsOf(batchOut.txs) # signatures

\* C6: every page request asks for min(batch size, limit - collected)
\* signatures (at least one), carries the last signature of the previous page
\* as its cursor, follows only a full page that left the limit unreached, and
\* no more than limit signatures are ever collected.
C6_PagesBounded ==
    /\ Len(allSignatures) <= limit
    /\ \A k \in 1..Len(pages) :
          /\ pages[k].size = Min(batchSize, limit - pages[k].had)
          /\ pages[k].size >= 1
          /\ Len(pages[k].got) <= pages[k].size
          /\ pages[k].before = IF k = 1 THEN NoSig
                                ELSE pages[k - 1].got[Len(pages[k - 1].got)]
          /\ pages[k].had = IF k = 1 THEN 0
                             ELSE pages[k - 1].had + Len(pages[k - 1].got)
          /\ k > 1 => /\ pages[k - 1].answered
                       /\ Len(pages[k - 1].got) = pages[k - 1].size
                       /\ pages[k].had < limit
    /\ (pc \notin {"page", "rpcSigs"} /\ pages # <<>> /\ pages[Len(pages)].answered) =>
          LET p == pages[Len(pages)]
          IN  /\ allSignatures = SubSeq(allSignatures, 1, p.had) \o p.got
              /\ \/ Len(allSignatures) = limit
                  \/ Len(p.got) < p.size

\* C6 witness: pagination ended after two pages, the second one shrunk below
\* the batch size so as to end exactly at limit.
C6_Witness ==
    /\ pc = "batch"
    /\ Len(pages) = 2
    /\ pages[2].size < batchSize
    /\ pages[2].before # NoSig
    /\ Len(allSignatures) = limit

(***************************************************************************)
(* Claims about the order assembler (checked under SpecOrders).            *)
(***************************************************************************)
\* What the locator finds in a transaction whose account list and tree exist.
Located(tx) ==
    LET full == GetFullAccountKeys(tx.RawTx)
        tree == ParseInstructionTreeByStackHeight(tx.RawTx)
    IN  IF full.kind # "ok" \/ tree.err
        THEN [ok |-> FALSE, routes |-> 0, mints |-> [err |-> TRUE, sell |-> "", buy |-> ""]]
        ELSE LET found == FindNodesByProgramID(full.keys, tree, JupiterPID)
             IN  [ok |-> ~found.panic,
                  routes |-> Len(found.route),
                  mints |-> DeriveMints(tree.nodes, found.event)]

\* The tree holds exactly one route node and the derived sell or buy asset
\* is the target mint.
Qualifies(tx) ==
    LET l == Located(tx)
    IN  /\ l.ok
        /\ l.routes = 1
        /\ ~l.mints.err
        /\ (Normalize(l.mints.sell) = TargetMint \/ Normalize(l.mints.buy) = TargetMint)

WalletChanges(tx) == GetBalanceChanges(tx.RawTx, GetFullAccountKeys(tx.RawTx).keys).changes

\* The wallet has no balance-change entry for the sell or for the buy asset.
MissingDelta(tx) ==
    LET l == Located(tx)
    IN  \/ <<User, Normalize(l.mints.sell)>> \notin DOMAIN WalletChanges(tx)
        \/ <<User, Normalize(l.mints.buy)>> \notin DOMAIN WalletChanges(tx)

\* Tree or account resolution fails, the metadata is missing, or a payload
\* the chosen route needs does not decode.
Structural(tx) ==
    \/ ~tx.RawTx.parseOK
    \/ tx.RawTx.Meta = <<>>
    \/ ParseInstructionTreeByStackHeight(tx.RawTx).err
    \/ (Located(tx).ok /\ Located(tx).routes = 1 /\ Located(tx).mints.err)

OrdersFor(i) == {k \in 1..Len(orders) : orders[k].Signature = i}
\* the call ended (error or panic) at transaction i
EndedAt(i) == i = next /\ out \in {"err", "panic"}

\* C7: at most one order per transaction; an order is emitted for a
\* transaction if and only if its tree holds exactly one route node and its
\* derived sell or buy asset is the target mint.
C7_OrderIffOneRouteAndTarget ==
    /\ \A i \in 1..Len(txList) :
          /\ Cardinality(OrdersFor(i)) <= 1
          /\ OrdersFor(i) # {} => Qualifies(txList[i])
    /\ out # "running" =>
          \A i \in 1..Len(txList) : Qualifies(txList[i]) => OrdersFor(i) # {}

\* C8: in every emitted order the amount of SellToken is the wallet's balance
\* delta of the sell asset and the amount of BuyToken its delta of the buy asset.
C8_AmountsAreWalletDeltas ==
    \A k \in 1..Len(orders) :
        LET o == orders[k]
            ch == WalletChanges(txList[o.Signature])
        IN  /\ <<User, o.SellToken.Mint>> \in DOMAIN ch
            /\ o.SellToken.Amount = ch[<<User, o.SellToken.Mint>>].Amount
            /\ <<User, o.BuyToken.Mint>> \in DOMAIN ch
            /\ o.BuyToken.Amount = ch[<<User, o.BuyToken.Mint>>].Amount

\* C9: a qualifying transaction for which the wallet lacks the balance-change
\* entry of the sell or of the buy asset yields no order, and the loop goes on
\* past it.
C9_MissingDeltaRejected ==
    \A i \in 1..Len(txList) :
        (Qualifies(txList[i]) /\ MissingDelta(txList[i])) =>
            /\ OrdersFor(i) = {}
            /\ ~EndedAt(i)

\* C10: a transaction with a structural error yields no order and does not
\* end the call: the loop goes on past it and no error is returned.
C10_StructuralErrorSkipped ==
    /\ out # "err"
    /\ \A i \in 1..Len(txList) :
          Structural(txList[i]) => (OrdersFor(i) = {} /\ ~EndedAt(i))

(***************************************************************************)
(* Claims about the accountant (checked under SpecAccountant).             *)
(***************************************************************************)
\* the positions the call holds: the closed ones and the open one
Held == IF stage = "done" THEN positions ELSE positions \o currentPosition
SignaturesOf(pos) == {pos.Transactions[j].Signature : j \in 1..Len(pos.Transactions)}

\* C12: at most one position is open at a time; a position starts with a
\* buy, is closed exactly when its running quantity is <= 0 (which only a
\* sell brings about), a closed position is never touched again, and no order
\* is recorded in two positions.
C12_OnePositionAtATime ==
    /\ [](\A i \in 1..Len(Held) :
             /\ Held[i].Transactions # <<>>
             /\ IsBuy(Held[i].Transactions[1])
             /\ Held[i].IsClosed <=> RLeq(Held[i].TotalAmount, Zero)
             /\ Held[i].IsClosed => IsSell(Held[i].Transactions[Len(Held[i].Transactions)])
             /\ i < Len(Held) => Held[i].IsClosed
             /\ \A j \in 1..Len(Held) :
                   i < j => SignaturesOf(Held[i]) \cap SignaturesOf(Held[j]) = {})
    /\ [][\A i \in 1..Len(positions) :
              positions[i].IsClosed => (Len(positions') >= i /\ positions'[i] = positions[i])]_vars

\* C12 witness: two positions came out, the first closed by a sell and the
\* second, opened by the buy after it, still open.
C12_Witness ==
    /\ stage = "done"
    /\ Len(positions) = 2
    /\ positions[1].IsClosed
    /\ ~positions[2].IsClosed
    /\ Len(positions[1].Transactions) = 2

\* The position the order at `cursor` is applied to, before and after the step.
Touched == currentPosition[1]
TouchedAfter ==
    IF currentPosition' # <<>> THEN currentPosition'[1] ELSE positions'[Len(positions')]
\* a step of the loop that applies an order to the position that is open
StepOnOpen == stage = "account" /\ cursor' = cursor + 1 /\ currentPosition # <<>>

\* The buys of a position (by signature: in a list of orders given to the
\* accountant, order i carries signature i), what they cost and what they bought.
BuysOf(pos) == {g \in SignaturesOf(pos) : IsBuy(sorted[g])}
RECURSIVE SumOver(_, _)
SumOver(set, f) ==
    IF set = {} THEN Zero
    ELSE LET g == CHOOSE x \in set : TRUE IN RAdd(f[g], SumOver(set \ {g}, f))
BoughtQty == [g \in 1..Len(quotes) |-> parseTokenAmount(sorted[g], TRUE)]
BoughtUsd == [g \in 1..Len(quotes) |-> RMul(BoughtQty[g], quotes[g][1])]
WeightedMean(pos) == RDiv(SumOver(BuysOf(pos), BoughtUsd), SumOver(BuysOf(pos), BoughtQty))

\* C13 (as claimed): within one position a buy never lowers the average cost,
\* and a sell leaves it as it is.
C13_AverageCostNeverFalls ==
    [][StepOnOpen =>
          /\ IsBuy(sorted[cursor]) => RLeq(Touched.AverageCost, TouchedAfter.AverageCost)
          /\ ~IsBuy(sorted[cursor]) => TouchedAfter.AverageCost = Touched.AverageCost]_vars

\* C13 (amended): the average cost of a position is the mean price of all
\* its buys weighted by quantity, whatever was sold in between; a sell
\* leaves it as it is.
C13_AverageCostIsWeightedMean ==
    /\ [](\A i \in 1..Len(Held) : Held[i].AverageCost = WeightedMean(Held[i]))
    /\ [][(StepOnOpen /\ ~IsBuy(sorted[cursor])) =>
              TouchedAfter.AverageCost = Touched.AverageCost]_vars

\* C13 witness: a position bought at 1.5, then at 1, then sold in part; its
\* average cost went down with the second buy.
C13_Witness ==
    /\ stage = "account"
    /\ cursor = 4
    /\ currentPosition # <<>>
    /\ Len(currentPosition[1].Transactions) = 3
    /\ ~IsSell(sorted[1]) /\ ~IsSell(sorted[2]) /\ ~IsBuy(sorted[3])
    /\ quotes[1] = <<Rat(3, 2)>> /\ quotes[2] = <<Rat(1, 1)>>
    /\ RLess(currentPosition[1].AverageCost, Rat(3, 2))

\* The decimal that writes the rational v out in full; v has a finite expansion.
RECURSIVE AllDigits(_, _)
AllDigits(r, d) ==
    IF r = 0 THEN <<>> ELSE <<(r * 10) \div d>> \o AllDigits((r * 10) % d, d)
RECURSIVE Without(_, _)
Without(d, f) == IF d % f = 0 THEN Without(d \div f, f) ELSE d
Terminates(v) == Without(Without(v.d, 2), 5) = 1
\* the float `dec` is the number v, digit for digit
Represents(dec, v) ==
    /\ Terminates(v)
    /\ dec = [neg |-> v.n < 0, int |-> Abs(v.n) \div v.d,
              frac |-> AllDigits(Abs(v.n) % v.d, v.d)]

\* A list of exactly two orders: a buy of q units and then a sell of q units,
\* priced p and p2, taken through to the results.
BuyThenSellAll ==
    /\ stage = "done"
    /\ Len(sorted) = 2
    /\ IsBuy(sorted[1]) /\ ~IsSell(sorted[1])
    /\ IsSell(sorted[2]) /\ ~IsBuy(sorted[2])
    /\ sorted[1].BuyToken.Amount = sorted[2].SellToken.Amount
    /\ sorted[1].BuyToken.Decimals = sorted[2].SellToken.Decimals
RoundTripQty == Rat(sorted[1].BuyToken.Amount, Pow10(sorted[1].BuyToken.Decimals))
RoundTripGain == RMul(RoundTripQty, RSub(quotes[2][1], quotes[1][1]))
RoundTripPct == RMul(RDiv(RSub(quotes[2][1], quotes[1][1]), quotes[1][1]), Rat(100, 1))

\* C14 (as claimed): a buy of q at p and then a sell of q at p2 give one
\* result: closed, nothing unrealized, average cost p, realized value
\* q*(p2 - p), percentage (p2 - p)/p*100 written with two decimals.
C14_RoundTripExact ==
    BuyThenSellAll =>
        /\ Len(pnlResults) = 1
        /\ pnlResults[1].IsClosed
        /\ pnlResults[1].UnrealizedProfitLossValue = ZeroFloat
        /\ Represents(pnlResults[1].AverageCost, quotes[1][1])
        /\ Represents(pnlResults[1].ProfitLossValue, RoundTripGain)
        /\ pnlResults[1].ProfitLossPercentage \in Sprintf2f(RoundTripPct)

\* C14 (amended): the same, the average cost being p cut after 9 decimal
\* places and the realized value q*(p2 - p) cut after 10.
C14_RoundTripTruncated ==
    BuyThenSellAll =>
        /\ Len(pnlResults) = 1
        /\ pnlResults[1].IsClosed
        /\ pnlResults[1].UnrealizedProfitLossValue = ZeroFloat
        /\ pnlResults[1].AverageCost = truncateToDecimals(quotes[1][1], 9)
        /\ pnlResults[1].ProfitLossValue = truncateToDecimals(RoundTripGain, 10)
        /\ pnlResults[1].ProfitLossPercentage \in Sprintf2f(RoundTripPct)

\* C14 witness: 2 units (20 with one decimal) bought at 1 and sold at 1.5:
\* average cost 1, realized value 1, "50.00%".
C14_Witness ==
    /\ BuyThenSellAll
    /\ sorted[1].BuyToken.Decimals = 1
    /\ quotes = <<<<Rat(1, 1)>>, <<Rat(3, 2)>>>>
    /\ pnlResults[1].AverageCost = [neg |-> FALSE, int |-> 1, frac |-> <<>>]
    /\ pnlResults[1].ProfitLossValue = [neg |-> FALSE, int |-> 1, frac |-> <<>>]
    /\ pnlResults[1].ProfitLossPercentage = [neg |-> FALSE, int |-> 50, frac |-> <<0, 0>>]

\* v cut after k decimal places, towards zero: the float (trailing zeros
\* dropped) and the string with all k places.
ChopString(v, k) ==
    [neg |-> v.n < 0, int |-> Abs(v.n) \div v.d, frac |-> Digits(Abs(v.n) % v.d, v.d, k)]
Chop(v, k) ==
    LET c == ChopString(v, k)
    IN  IF c.int = 0 /\ StripZeros(c.frac) = <<>> THEN ZeroFloat
        ELSE [c EXCEPT !.frac = StripZeros(@)]

\* C16: every figure of every result is its exact value cut towards zero:
\* the average cost after 9 places, the realized value after 10, the
\* unrealized value after 2, the percentage string after 2.
C16_FiguresTruncated ==
    stage = "done" =>
        \A i \in 1..Len(pnlResults) :
            LET pos == positions[i]
                r == pnlResults[i]
            IN  /\ r.AverageCost = Chop(pos.AverageCost, 9)
                /\ r.ProfitLossValue = Chop(pos.RealizedPnL, 10)
                /\ ~pos.IsClosed =>
                      r.UnrealizedProfitLossValue =
                          Chop(RSub(RMul(pos.TotalAmount, currentPrice[1]), pos.TotalCostUSD), 2)
                /\ r.ProfitLossPercentage =
                      ChopString(RMul(RDiv(pos.RealizedPnL, pos.TotalInvestment), Rat(100, 1)), 2)

\* C17: a result with isClosed = true reports no unrealized value.
C17_ClosedHasNoUnrealized ==
    \A i \in 1..Len(pnlResults) :
        pnlResults[i].IsClosed => pnlResults[i].UnrealizedProfitLossValue = ZeroFloat

\* C17 witness: a position closed by a sell of more than it held (running
\* quantity below zero) got its result at a current price other than its
\* average cost, next to an open position with an unrealized value.
C17_Witness ==
    /\ stage = "done"
    /\ Len(pnlResults) = 2
    /\ pnlResults[1].IsClosed
    /\ RLess(positions[1].TotalAmount, Zero)
    /\ positions[1].AverageCost # currentPrice[1]
    /\ ~pnlResults[2].IsClosed
    /\ pnlResults[2].UnrealizedProfitLossValue # ZeroFloat

(***************************************************************************)
(* Claims about CalculatePnL (checked under SpecPnL).                      *)
(***************************************************************************)
\* C11: CalculatePnL never ends in a runtime panic, whatever the
\* transactions and whatever the oracle answers.
C11_NeverCrashes == out # "panic" /\ stage # "panic"

\* C15: the orders calculatePnL consumes are ascending by (block time, slot).
C15_OrdersAscending == stage # "idle" => Ascending(sorted)

(***************************************************************************)
(* Claims about tree builder, locator and extractor (checked under         *)
(* SpecParse).                                                             *)
(***************************************************************************)
NTop == Len(parsedTx.Instructions)
Groups == parsedTx.Meta[1].InnerInstructions
RECURSIVE SizeOfGroups(_)
SizeOfGroups(gs) == IF gs = <<>> THEN 0 ELSE Len(Head(gs).Instructions) + SizeOfGroups(Tail(gs))
NInstr == NTop + SizeOfGroups(Groups)
\* the node of member k of group gi (nodes are named by global index + 1)
MemberNode(gi, k) == NTop + SizeOfGroups(SubSeq(Groups, 1, gi - 1)) + k
GroupsValid == \A gi \in 1..Len(Groups) : Groups[gi].Index \in 0..(NTop - 1)
TreeBuilt == pstage \in {"tree", "located"}

\* the top-level node above node n (0: none) and the depth of n below it
RECURSIVE TopAncestor(_, _)
TopAncestor(nodes, n) ==
    IF n = 0 THEN 0
    ELSE IF nodes[n].Index \in 0..(NTop - 1) THEN n
    ELSE TopAncestor(nodes, nodes[n].Parent)
RECURSIVE DepthBelowTop(_, _)
DepthBelowTop(nodes, n) ==
    IF n = 0 THEN -1
    ELSE IF nodes[n].Index \in 0..(NTop - 1) THEN 0
    ELSE LET up == DepthBelowTop(nodes, nodes[n].Parent)
         IN  IF up = -1 THEN -1 ELSE up + 1

\* C18: the tree of a transaction of N >= 1 top-level instructions whose
\* groups each name one of them is built without error; its root is the
\* top-level node when N = 1 and a virtual root (index -1, height 0) over the
\* N top-level nodes in order, each reparented to it, when N > 1; every
\* node's stack height is its depth below its top-level ancestor; every
\* inner instruction lies below the top-level instruction its group names.
C18_TreeShape ==
    TreeBuilt =>
        /\ treeOut.err <=> ~GroupsValid
        /\ ~treeOut.err =>
              LET nodes == treeOut.nodes
                  root == treeOut.root
              IN  /\ NTop = 1 =>
                        /\ Len(nodes) = NInstr
                        /\ root = 1 /\ nodes[1].Index = 0 /\ nodes[1].Parent = 0
                  /\ NTop > 1 =>
                        /\ Len(nodes) = NInstr + 1
                        /\ root = NInstr + 1
                        /\ nodes[root].Index = -1 /\ nodes[root].StackHeight = 0
                        /\ nodes[root].Parent = 0
                        /\ nodes[root].Children = [i \in 1..NTop |-> i]
                        /\ \A i \in 1..NTop : nodes[i].Index = i - 1 /\ nodes[i].Parent = root
                  /\ \A n \in 1..NInstr :
                        /\ nodes[n].StackHeight = DepthBelowTop(nodes, n)
                        /\ nodes[n].Parent # 0 => n \in Range(nodes[nodes[n].Parent].Children)
                  /\ \A gi \in 1..Len(Groups) : \A k \in 1..Len(Groups[gi].Instructions) :
                        TopAncestor(nodes, MemberNode(gi, k)) = Groups[gi].Index + 1

\* C18 witness: two top-level instructions, a group for each (the group of
\* the second listed first), built into a tree under a virtual root.
C18_Witness ==
    /\ TreeBuilt
    /\ ~treeOut.err
    /\ NTop = 2
    /\ Len(Groups) = 2
    /\ treeOut.nodes[treeOut.root].Index = -1
    /\ Len(treeOut.nodes[1].Children) = 2
    /\ Len(treeOut.nodes[2].Children) = 1

\* The swap-event payloads of the transaction in depth-first tree order: the
\* inner instructions of the first top-level instruction (group by group, as
\* listed), then those of the second, and so on.
IsEvent(instr) ==
    /\ instr.ProgramIDIndex + 1 <= Len(Keys) /\ Keys[instr.ProgramIDIndex + 1] = JupiterPID
    /\ instr.Data.tag1 = EventTag1 /\ instr.Data.tag2 = EventTag2
RECURSIVE MembersOf(_, _)
MembersOf(gs, top) ==
    IF gs = <<>> THEN <<>>
    ELSE (IF Head(gs).Index = top THEN Head(gs).Instructions ELSE <<>>) \o MembersOf(Tail(gs), top)
RECURSIVE InTreeOrder(_)
InTreeOrder(top) ==
    IF top >= NTop THEN <<>> ELSE MembersOf(Groups, top) \o InTreeOrder(top + 1)
EventPayloads ==
    LET evs == SelectSeq(InTreeOrder(0), IsEvent)
    IN  [i \in 1..Len(evs) |-> evs[i].Data.event]
RouteCount == Cardinality({i \in 1..NTop : parsedTx.Instructions[i] = RouteInstr})
Sentinel(m) == IF m = WrappedSOL THEN "SOL" ELSE m

\* C19: with one route node and k >= 1 swap events in depth-first order
\* (first and last payload decodable), the sell asset is the input asset of
\* the first event and the buy asset the output asset of the last, wrapped
\* SOL written as "SOL" on either side.
C19_FirstInputLastOutput ==
    (pstage = "located" /\ RouteCount = 1 /\ EventPayloads # <<>>) =>
        LET first == EventPayloads[1]
            last == EventPayloads[Len(EventPayloads)]
        IN  /\ Len(located.route) = 1
            /\ Len(located.event) = Len(EventPayloads)
            /\ located.err <=> (first = <<>> \/ last = <<>>)
            /\ ~located.err =>
                  /\ located.sellTokenMint = Sentinel(first[1].InputMint)
                  /\ located.buyTokenMint = Sentinel(last[1].OutputMint)

\* C19 witness: one route, two events in two groups listed against tree
\* order (T -> U under the first instruction, U -> wrapped SOL under the
\* second): sell asset T, buy asset "SOL".
C19_Witness ==
    /\ pstage = "located"
    /\ RouteCount = 1
    /\ Len(Groups) = 2
    /\ Len(EventPayloads) = 2
    /\ ~located.err
    /\ located.sellTokenMint = "T"
    /\ located.buyTokenMint = "SOL"

\* The balance tables of the transaction as the RPC reports them: the token
\* rows by (owner, mint) and the native balances by (account, "SOL").
BalanceTable(rows, bals) ==
    {[pair |-> <<rows[i].Owner, rows[i].Mint>>, amount |-> rows[i].Amount] : i \in 1..Len(rows)}
    \cup {[pair |-> <<Keys[i], "SOL">>, amount |-> bals[i]] : i \in 1..Len(bals)}
PreTable == BalanceTable(parsedTx.Meta[1].PreTokenBalances, parsedTx.Meta[1].PreBalances)
PostTable == BalanceTable(parsedTx.Meta[1].PostTokenBalances, parsedTx.Meta[1].PostBalances)
PairsOf(table) == {row.pair : row \in table}
\* the balance of a pair in a table, 0 when the table does not list it
BalanceIn(table, pair) ==
    IF pair \in PairsOf(table) THEN (CHOOSE row \in table : row.pair = pair).amount ELSE 0

\* C20: the changes hold exactly the (owner, asset) pairs of the pre-trade
\* and the post-trade table, each with |post - pre|, a balance the table does
\* not list counting as 0.
C20_ChangeIsAbsoluteDifference ==
    pstage # "start" =>
        /\ balances.kind = "ok"
        /\ DOMAIN balances.changes = PairsOf(PreTable) \cup PairsOf(PostTable)
        /\ \A pair \in PairsOf(PreTable) \cup PairsOf(PostTable) :
              LET d == BalanceIn(PostTable, pair) - BalanceIn(PreTable, pair)
              IN  /\ balances.changes[pair].Amount >= 0
                  /\ balances.changes[pair].Amount = IF d < 0 THEN 0 - d ELSE d

\* C20 witness: the wallet's token account of T held 10 before the trade and
\* is gone after it: the change is the full 10; its SOL went from 9 to 7.
C20_Witness ==
    /\ pstage = "extracted"
    /\ <<"W", "T">> \in PairsOf(PreTable) \ PairsOf(PostTable)
    /\ balances.changes[<<"W", "T">>].Amount = 10
    /\ balances.changes[<<"W", "SOL">>].Amount = 2

\* the request is over: the handler returned or the panic was recovered
RequestOver == hstage \in {"done", "recovered"}
ParamsPresent == query.userAddress # "" /\ query.tokenMint # ""
LimitUnusable == query.limit = <<>> \/ Atoi(query.limit[1]).err

\* C21: with the limit absent or not an integer (wallet and mint given) the
\* handler works with limit 100: GetTransactions is called with it.
C21_DefaultLimitUsed ==
    (RequestOver /\ ParamsPresent /\ LimitUnusable) =>
        /\ hlimit = <<100>>
        /\ fetchOut # "none"

\* C22: a request the handler answered got exactly one body: the error
\* payload, and no fetch, when wallet or mint is missing; the error payload
\* alone when the fetch or the computation failed; the results otherwise.
C22_OneBody ==
    hstage = "done" =>
        /\ Len(bodies) = 1
        /\ ~ParamsPresent => (bodies[1].kind = "error" /\ fetchOut = "none")
        /\ (fetchOut = "err" \/ computeOut = "err") => bodies[1].kind = "error"
        /\ (ParamsPresent /\ fetchOut # "err" /\ computeOut # "err") =>
              bodies[1].kind = "results"

\* C23: under every interleaving of the calls an entry of the cache is never
\* removed and never replaced (no signature is written twice), every key is
\* the signature of its entry, and every write follows a successful fetch
\* of the writing call.
C23_EntriesImmutable ==
    /\ [](\A s \in DOMAIN cacheMap : cacheMap[s].Signature = s)
    /\ [](\A i, j \in 1..Len(writes) : writes[i].key = writes[j].key => i = j)
    /\ [](\A i \in 1..Len(writes) :
            \E c \in DOMAIN callers :
                /\ callers[c].pc = "returned"
                /\ writes[i].tx \in Range(callers[c].newTransactions))
    /\ [][\A s \in DOMAIN cacheMap :
            s \in DOMAIN cacheMap' /\ cacheMap'[s] = cacheMap[s]]_vars

\* C24: a call that started workers is over only when every worker has
\* delivered its result, and it is over with a result or with an error.
C24_ReturnsAfterAllWorkers ==
    (CallEnded /\ workers # <<>>) =>
        /\ AllWorkersDone
        /\ resultChan = <<>>
        /\ ret.kind \in {"ok", "err"}

\* C25: for a transaction whose metadata carries loaded addresses the
\* account list is the static keys, then the writable, then the read-only
\* loaded addresses.
C25_LoadedAddressesAppended ==
    (pstage = "keys" /\ parsedTx.parseOK /\ parsedTx.Meta # <<>>) =>
        /\ fullAccountKeys.kind = "ok"
        /\ fullAccountKeys.keys = parsedTx.AccountKeys \o parsedTx.Meta[1].Writable
                                      \o parsedTx.Meta[1].ReadOnly

\* The stream of orders read on its own: after k orders, is a position open,
\* what quantity does it hold, and which orders opened a position so far.
SizeOf(order) ==
    LET side == IF IsBuy(order) THEN order.BuyToken ELSE order.SellToken
    IN  Rat(side.Amount, Pow10(side.Decimals))
RECURSIVE Stream(_)
Stream(k) ==
    IF k = 0 THEN [open |-> FALSE, qty |-> Zero, openers |-> <<>>]
    ELSE LET prev == Stream(k - 1)
           order == sorted[k]
           opens == ~prev.open /\ IsBuy(order)
           isOpen == prev.open \/ opens
           held == IF opens THEN Zero ELSE prev.qty
           afterBuy == IF IsBuy(order) /\ isOpen THEN RAdd(held, SizeOf(order)) ELSE held
           afterSell == IF IsSell(order) /\ isOpen THEN RSub(afterBuy, SizeOf(order))
                        ELSE afterBuy
         IN  [open |-> isOpen /\ ~(IsSell(order) /\ RLeq(afterSell, Zero)),
              qty |-> afterSell,
              openers |-> IF opens THEN Append(prev.openers, order.Signature)
                          ELSE prev.openers]

\* C26: the results are one per position in the order the positions were
\* opened; all but the last are closed; the last is open exactly when the
\* stream ends with a position open, and then carries the unrealized value
\* at the current price.
C26_ResultsFollowPositions ==
    stage = "done" =>
        LET end == Stream(Len(sorted))
            n == Len(pnlResults)
        IN  /\ n = Len(end.openers)
            /\ Len(positions) = n
            /\ \A i \in 1..n :
                  /\ positions[i].Transactions[1].Signature = end.openers[i]
                  /\ pnlResults[i].IsClosed = positions[i].IsClosed
                  /\ i < n => pnlResults[i].IsClosed
            /\ end.open <=> (n > 0 /\ ~pnlResults[n].IsClosed)
            /\ end.open =>
                  pnlResults[n].UnrealizedProfitLossValue =
                      Chop(RSub(RMul(end.qty, currentPrice[1]), positions[n].TotalCostUSD), 2)

\* C26 witness: three orders, a round trip (position closed) and a buy that
\* opens a second position, left open at the end and valued at 1.5.
C26_Witness ==
    /\ stage = "done"
    /\ Len(sorted) = 3
    /\ Stream(3).openers = <<1, 3>>
    /\ Len(pnlResults) = 2
    /\ pnlResults[1].IsClosed
    /\ ~pnlResults[2].IsClosed
    /\ currentPrice = <<Rat(3, 2)>>
    /\ quotes[3] = <<Rat(1, 1)>>
    /\ pnlResults[2].UnrealizedProfitLossValue # ZeroFloat

\* the sells that arrive while no position is open
IsOrphan(k) == IsSell(sorted[k]) /\ ~IsBuy(sorted[k]) /\ ~Stream(k - 1).open
OrphanSells == {k \in 1..Len(sorted) : IsOrphan(k)}
\* calculatePnL's loop over the first k orders with the orphan sells left
\* out, each order priced as the oracle priced it
RECURSIVE WithoutOrphans(_)
WithoutOrphans(k) ==
    IF k = 0 THEN [positions |-> <<>>, currentPosition |-> <<>>]
    ELSE IF IsOrphan(k) THEN WithoutOrphans(k - 1)
    ELSE AccountOrder(WithoutOrphans(k - 1), sorted[k], TargetMint, quotes[k][1])
\* a step of the loop on an orphan sell
StepOnOrphan == stage = "account" /\ cursor' = cursor + 1 /\ IsOrphan(cursor)

\* C27: a sell that arrives while no position is open opens no position and
\* changes no position and no result; the results are those of the order
\* list without it.
C27_OrphanSellIgnored ==
    /\ [](stage = "done" =>
            LET st == WithoutOrphans(Len(sorted))
            IN  pnlResults \in calculatePositionPnL(st.positions \o st.currentPosition,
                                                    currentPrice[1]))
    /\ [][StepOnOrphan =>
            /\ currentPosition' = <<>>
            /\ positions' = positions
            /\ pnlResults' = pnlResults]_vars

\* C27 witness: a sell, then a buy and a sell that closes its position: one
\* result, that of the round trip, the first sell priced differently.
C27_Witness ==
    /\ stage = "done"
    /\ Len(sorted) = 3
    /\ OrphanSells = {1}
    /\ quotes[1] # quotes[2]
    /\ Len(pnlResults) = 1
    /\ pnlResults[1].IsClosed
    /\ SignaturesOf(positions[1]) = {2, 3}

\* C28: the position a buy was applied to has bought a quantity > 0, its
\* average cost is a number (the divisor was not zero), and an open position
\* holds a quantity > 0.
C28_BuyQuantityPositive ==
    /\ \A i \in 1..Len(Held) :
          /\ RLess(Zero, Held[i].TotalQuantity)
          /\ ~IsNaN(Held[i].AverageCost)
    /\ currentPosition # <<>> => RLess(Zero, currentPosition[1].TotalAmount)

====
